---- MODULE Spec2Model ----
(***************************************************************************)
(* Memo lifecycle, analyst statistics, memo gate and scanner of the        *)
(* research platform (app/backend services and repositories, src/agents,   *)
(* src/services/scanner.py).                                               *)
(*                                                                         *)
(* Numbers: Python floats (prices, return percentages, total_return) are   *)
(* modelled as fixed-point integers with Scale units per 1.0; prices are   *)
(* whole numbers.  NULL stands for None / SQL NULL.                        *)
(***************************************************************************)
EXTENDS Integers, Sequences, FiniteSets, TLC

VARIABLES
    memos,        \* table memos: sequence of rows, a memo's id is its index
    investments,  \* table investments: sequence of rows, id = index
    stats,        \* table analyst_stats: analyst -> row (exists = FALSE: no row)
    now,          \* clock read by datetime.utcnow() / date.today()
    call,         \* the service call made last (sequential callers)
    ret,          \* what that call returned
    sess,         \* concurrent request sessions: position and ORM state of each
    gate,         \* memo gate: one analyst result and what the gate made of it
    scan,         \* scanner: the run's inputs, position and ScanResult
    score,        \* analyst scorer: the sub-analysis inputs and the signal made of them
    board,        \* leaderboard: the stored rows, the limit and the list returned
    watch,        \* watchlist: the stored tickers and the call made last
    sched         \* scheduler: the module global, the instances made and the call made last

dbVars == <<memos, investments, stats, now>>
vars == <<memos, investments, stats, now, call, ret, sess, gate, scan, score, board, watch,
          sched>>

----------------------------------------------------------------------------
(* Bounds and input sets *)

MaxMemos == 2          \* memos created in a sequential run
MaxConcMemos == 1      \* memos created in a concurrent run
MaxTickers == 2        \* tickers in a scanned universe

ConvictionThreshold == 70    \* should_generate_memo, DEFAULT_CONVICTION_THRESHOLD
MinConviction == 0           \* InvestmentMemo.conviction ge
MaxConviction == 100         \* InvestmentMemo.conviction le

NULL == 0 - 1
Scale == 100 * 100

Analysts == {"warren_buffett", "bill_ackman"}
Sessions == {"s1", "s2"}

\* The memos offered to create_memo (ticker, analyst, signal, current_price).
MemoInputs ==
    { [ticker |-> "AAPL", analyst |-> "warren_buffett", signal |-> "bullish", current_price |-> 100],
      [ticker |-> "MSFT", analyst |-> "bill_ackman",    signal |-> "bearish", current_price |-> 100] }

EntryOverrides == {NULL, 3}       \* approve_memo's entry_price argument
ExitPrices == {4, 100}            \* close_investment's exit_price argument
ExitDates == {20}                 \* close_investment's exit_date argument
ConcExitPrices == {4}            \* exit prices of concurrent closes

\* The ids offered to the calls: every id in the table and one that is not.
MemoIds == 1..(Len(memos) + 1)
InvestmentIds == 1..(Len(investments) + 1)

----------------------------------------------------------------------------
(* Arithmetic on fixed-point values *)

\* n / d rounded to the nearest integer (d > 0).
RoundDiv(n, d) == (2 * n + d) \div (2 * d)

\* Python round(x, 2): to the nearest hundredth, ties to the even hundredth.
Round2(x) ==
    LET unit == Scale \div 100
        q == x \div unit
        r == x % unit
    IN  IF 2 * r < unit THEN q * unit
        ELSE IF 2 * r > unit THEN (q + 1) * unit
        ELSE IF q % 2 = 0 THEN q * unit ELSE (q + 1) * unit

\* The return percentage with the bullish formula for either direction.
ReturnPctUnsigned(signal, entry_price, exit_price) ==
    RoundDiv((exit_price - entry_price) * 100 * Scale, entry_price)

\* The return percentage of a position, its sign by direction.
ReturnPct(signal, entry_price, exit_price) ==
    IF signal = "bullish"
    THEN RoundDiv((exit_price - entry_price) * 100 * Scale, entry_price)
    ELSE RoundDiv((entry_price - exit_price) * 100 * Scale, entry_price)

----------------------------------------------------------------------------
(* Rows *)

NoStats == [exists |-> FALSE, total_memos |-> 0, approved_count |-> 0,
            win_count |-> 0, total_return |-> 0]

NewMemo(inp) ==
    [ticker |-> inp.ticker, analyst |-> inp.analyst, signal |-> inp.signal,
     current_price |-> inp.current_price, status |-> "pending", reviewed_at |-> NULL]

NoCall == [op |-> "none", id |-> 0, price |-> NULL]

NoMemo == [ticker |-> "", analyst |-> "", signal |-> "", current_price |-> NULL,
           status |-> "absent", reviewed_at |-> NULL]

NoInvestment == [memo_id |-> 0, ticker |-> "", analyst |-> "", signal |-> "",
                 entry_price |-> NULL, entry_date |-> NULL, status |-> "absent",
                 exit_price |-> NULL, exit_date |-> NULL]

IdleSession == [pc |-> "idle", op |-> "none", id |-> 0, price |-> NULL,
                memo |-> NoMemo, inv |-> NoInvestment, row |-> NoStats,
                ret |-> "none"]

----------------------------------------------------------------------------
(* Repositories: each operator is one repository method on the tables *)

\* The precondition of a review: the memo exists and its status is pending.
PendingMemo(ms, memo_id) == memo_id \in DOMAIN ms /\ ms[memo_id].status = "pending"

\* MemoRepository.create_memo
RepoCreateMemo(ms, inp) == Append(ms, NewMemo(inp))

\* approve_memo that approves every pending memo of the same analyst.
RepoApproveMemoOfAnalyst(ms, memo_id, t) ==
    IF memo_id \notin DOMAIN ms THEN [ok |-> FALSE, memos |-> ms]
    ELSE IF ms[memo_id].status # "pending" THEN [ok |-> FALSE, memos |-> ms]
    ELSE [ok |-> TRUE,
          memos |-> [i \in DOMAIN ms |->
                        IF ms[i].analyst = ms[memo_id].analyst /\ ms[i].status = "pending"
                        THEN [ms[i] EXCEPT !.status = "approved", !.reviewed_at = t]
                        ELSE ms[i]]]

\* MemoRepository.approve_memo: None unless the memo exists and is pending.
RepoApproveMemo(ms, memo_id, t) ==
    IF memo_id \notin DOMAIN ms THEN [ok |-> FALSE, memos |-> ms]
    ELSE IF ms[memo_id].status # "pending" THEN [ok |-> FALSE, memos |-> ms]
    ELSE [ok |-> TRUE,
          memos |-> [ms EXCEPT ![memo_id].status = "approved",
                               ![memo_id].reviewed_at = t]]

\* reject_memo without the status check: any existing memo is rejected.
RepoRejectMemoAnyStatus(ms, memo_id, t) ==
    IF memo_id \notin DOMAIN ms THEN [ok |-> FALSE, memos |-> ms]
    ELSE [ok |-> TRUE,
          memos |-> [ms EXCEPT ![memo_id].status = "rejected",
                               ![memo_id].reviewed_at = t]]

\* reject_memo that refuses only approved memos: a rejected memo is rejected again.
RepoRejectMemoAgain(ms, memo_id, t) ==
    IF memo_id \notin DOMAIN ms THEN [ok |-> FALSE, memos |-> ms]
    ELSE IF ms[memo_id].status = "approved" THEN [ok |-> FALSE, memos |-> ms]
    ELSE [ok |-> TRUE,
          memos |-> [ms EXCEPT ![memo_id].status = "rejected",
                               ![memo_id].reviewed_at = t]]

\* reject_memo that leaves reviewed_at unset.
RepoRejectMemoUnstamped(ms, memo_id, t) ==
    IF memo_id \notin DOMAIN ms THEN [ok |-> FALSE, memos |-> ms]
    ELSE IF ms[memo_id].status # "pending" THEN [ok |-> FALSE, memos |-> ms]
    ELSE [ok |-> TRUE, memos |-> [ms EXCEPT ![memo_id].status = "rejected"]]

\* MemoRepository.reject_memo: None unless the memo exists and is pending.
RepoRejectMemo(ms, memo_id, t) ==
    IF memo_id \notin DOMAIN ms THEN [ok |-> FALSE, memos |-> ms]
    ELSE IF ms[memo_id].status # "pending" THEN [ok |-> FALSE, memos |-> ms]
    ELSE [ok |-> TRUE,
          memos |-> [ms EXCEPT ![memo_id].status = "rejected",
                               ![memo_id].reviewed_at = t]]

\* MemoRepository.count_memos_by_analyst
CountMemosByAnalyst(ms, a) == Cardinality({i \in DOMAIN ms : ms[i].analyst = a})

\* MemoRepository.count_approved_by_analyst
CountApprovedByAnalyst(ms, a) ==
    Cardinality({i \in DOMAIN ms : ms[i].analyst = a /\ ms[i].status = "approved"})

\* create_investment that never adds the row.
RepoCreateInvestmentLost(invs, memo_id, ticker, analyst, signal, entry_price, entry_date) ==
    invs

\* InvestmentRepository.create_investment
RepoCreateInvestment(invs, memo_id, ticker, analyst, signal, entry_price, entry_date) ==
    Append(invs, [memo_id |-> memo_id, ticker |-> ticker, analyst |-> analyst,
                  signal |-> signal, entry_price |-> entry_price,
                  entry_date |-> entry_date, status |-> "active",
                  exit_price |-> NULL, exit_date |-> NULL])

\* close_investment that leaves exit_date unset.
RepoCloseInvestmentNoDate(invs, investment_id, exit_price, exit_date) ==
    IF investment_id \notin DOMAIN invs THEN [ok |-> FALSE, investments |-> invs]
    ELSE IF invs[investment_id].status # "active" THEN [ok |-> FALSE, investments |-> invs]
    ELSE [ok |-> TRUE,
          investments |-> [invs EXCEPT ![investment_id].status = "closed",
                                       ![investment_id].exit_price = exit_price]]

\* InvestmentRepository.close_investment: None unless it exists and is active.
RepoCloseInvestment(invs, investment_id, exit_price, exit_date) ==
    IF investment_id \notin DOMAIN invs THEN [ok |-> FALSE, investments |-> invs]
    ELSE IF invs[investment_id].status # "active" THEN [ok |-> FALSE, investments |-> invs]
    ELSE [ok |-> TRUE,
          investments |-> [invs EXCEPT ![investment_id].status = "closed",
                                       ![investment_id].exit_price = exit_price,
                                       ![investment_id].exit_date = exit_date]]

\* InvestmentRepository.get_closed_investments_by_analyst (the ids)
ClosedInvestmentsByAnalyst(invs, a) ==
    {i \in DOMAIN invs : invs[i].analyst = a /\ invs[i].status = "closed"}

\* AnalystStatsRepository.get_or_create_stats
GetOrCreateStats(st, a) ==
    IF st[a].exists THEN st ELSE [st EXCEPT ![a] = [NoStats EXCEPT !.exists = TRUE]]

\* increment_total_memos that counts a memo twice.
IncrementTotalMemosTwice(st, a) ==
    [GetOrCreateStats(st, a) EXCEPT ![a].total_memos = @ + 2]

\* AnalystStatsRepository.increment_total_memos
IncrementTotalMemos(st, a) ==
    [GetOrCreateStats(st, a) EXCEPT ![a].total_memos = @ + 1]

\* increment_approved_count that loads the row and writes nothing.
IncrementApprovedCountSkipped(st, a) == GetOrCreateStats(st, a)

\* AnalystStatsRepository.increment_approved_count
IncrementApprovedCount(st, a) ==
    [GetOrCreateStats(st, a) EXCEPT ![a].approved_count = @ + 1]

\* record_investment_result that adds the return of winners only.
RecordInvestmentResultWinsOnly(st, a, is_win, return_pct) ==
    [GetOrCreateStats(st, a) EXCEPT
        ![a].win_count = IF is_win THEN @ + 1 ELSE @,
        ![a].total_return = IF is_win THEN @ + return_pct ELSE @]

\* AnalystStatsRepository.record_investment_result
RecordInvestmentResult(st, a, is_win, return_pct) ==
    [GetOrCreateStats(st, a) EXCEPT
        ![a].win_count = IF is_win THEN @ + 1 ELSE @,
        ![a].total_return = @ + return_pct]

\* update_stats that adds the new total_return to the stored one.
UpdateStatsAccumulating(st, a, total_memos, approved_count, win_count, total_return) ==
    [GetOrCreateStats(st, a) EXCEPT
        ![a].total_memos = total_memos,
        ![a].approved_count = approved_count,
        ![a].win_count = win_count,
        ![a].total_return = @ + total_return]

\* AnalystStatsRepository.update_stats (every argument given)
UpdateStats(st, a, total_memos, approved_count, win_count, total_return) ==
    [GetOrCreateStats(st, a) EXCEPT
        ![a].total_memos = total_memos,
        ![a].approved_count = approved_count,
        ![a].win_count = win_count,
        ![a].total_return = total_return]

----------------------------------------------------------------------------
(* Services, one caller at a time: each action is one whole service call *)

Called(op, id) == call' = [op |-> op, id |-> id, price |-> NULL]

\* InboxService.create_memo
create_memo(inp) ==
    /\ Len(memos) < MaxMemos
    /\ memos' = RepoCreateMemo(memos, inp)
    /\ stats' = IncrementTotalMemos(stats, inp.analyst)
    /\ Called("create_memo", Len(memos) + 1)
    /\ ret' = "ok"
    /\ UNCHANGED <<investments, now, sess, gate, scan, score, board, watch, sched>>

\* approve_memo that always enters at the memo's current_price.
approve_memo_at_current_price(memo_id, entry_price) ==
    /\ call' = [op |-> "approve_memo", id |-> memo_id, price |-> entry_price]
    /\ IF memo_id \notin DOMAIN memos
       THEN ret' = "none" /\ UNCHANGED dbVars
       ELSE IF memos[memo_id].status # "pending"
       THEN ret' = "none" /\ UNCHANGED dbVars
       ELSE LET memo == memos[memo_id]
                actual_entry_price == memo.current_price
                approved == RepoApproveMemo(memos, memo_id, now)
            IN  IF ~approved.ok
                THEN ret' = "none" /\ UNCHANGED dbVars
                ELSE /\ memos' = approved.memos
                     /\ investments' =
                            RepoCreateInvestment(investments, memo_id, memo.ticker,
                                memo.analyst, memo.signal, actual_entry_price, now)
                     /\ stats' = IncrementApprovedCount(stats, memo.analyst)
                     /\ now' = now + 1
                     /\ ret' = "ok"
    /\ UNCHANGED <<sess, gate, scan, score, board, watch, sched>>

\* InboxService.approve_memo
approve_memo(memo_id, entry_price) ==
    /\ call' = [op |-> "approve_memo", id |-> memo_id, price |-> entry_price]
    /\ IF memo_id \notin DOMAIN memos
       THEN ret' = "none" /\ UNCHANGED dbVars
       ELSE IF memos[memo_id].status # "pending"
       THEN ret' = "none" /\ UNCHANGED dbVars
       ELSE LET memo == memos[memo_id]
                actual_entry_price ==
                    IF entry_price # NULL THEN entry_price ELSE memo.current_price
                approved == RepoApproveMemo(memos, memo_id, now)
            IN  IF ~approved.ok
                THEN ret' = "none" /\ UNCHANGED dbVars
                ELSE /\ memos' = approved.memos
                     /\ investments' =
                            RepoCreateInvestment(investments, memo_id, memo.ticker,
                                memo.analyst, memo.signal, actual_entry_price, now)
                     /\ stats' = IncrementApprovedCount(stats, memo.analyst)
                     /\ now' = now + 1
                     /\ ret' = "ok"
    /\ UNCHANGED <<sess, gate, scan, score, board, watch, sched>>

\* InboxService.reject_memo
reject_memo(memo_id) ==
    /\ Called("reject_memo", memo_id)
    /\ LET rejected == RepoRejectMemo(memos, memo_id, now)
       IN  IF ~rejected.ok
           THEN ret' = "none" /\ UNCHANGED dbVars
           ELSE /\ memos' = rejected.memos
                /\ now' = now + 1
                /\ ret' = "ok"
                /\ UNCHANGED <<investments, stats>>
    /\ UNCHANGED <<sess, gate, scan, score, board, watch, sched>>

\* close_investment that records the result whatever the investment's status.
close_investment_again(investment_id, exit_price, exit_date) ==
    /\ Called("close_investment", investment_id)
    /\ IF investment_id \notin DOMAIN investments
       THEN ret' = "none" /\ UNCHANGED dbVars
       ELSE LET investment == investments[investment_id]
                return_pct == ReturnPct(investment.signal, investment.entry_price, exit_price)
                closed == RepoCloseInvestment(investments, investment_id, exit_price, exit_date)
            IN  /\ investments' = closed.investments
                /\ stats' = RecordInvestmentResult(stats, investment.analyst,
                                                   return_pct > 0, return_pct)
                /\ ret' = IF closed.ok THEN "ok" ELSE "none"
                /\ UNCHANGED <<memos, now>>
    /\ UNCHANGED <<sess, gate, scan, score, board, watch, sched>>

\* InvestmentService.close_investment
close_investment(investment_id, exit_price, exit_date) ==
    /\ Called("close_investment", investment_id)
    /\ IF investment_id \notin DOMAIN investments
       THEN ret' = "none" /\ UNCHANGED dbVars
       ELSE IF investments[investment_id].status # "active"
       THEN ret' = "none" /\ UNCHANGED dbVars
       ELSE LET investment == investments[investment_id]
                return_pct == ReturnPct(investment.signal, investment.entry_price, exit_price)
                is_win == return_pct > 0
                closed == RepoCloseInvestment(investments, investment_id, exit_price, exit_date)
            IN  IF ~closed.ok
                THEN ret' = "none" /\ UNCHANGED dbVars
                ELSE /\ investments' = closed.investments
                     /\ stats' = RecordInvestmentResult(stats, investment.analyst,
                                                        is_win, return_pct)
                     /\ ret' = "ok"
                     /\ UNCHANGED <<memos, now>>
    /\ UNCHANGED <<sess, gate, scan, score, board, watch, sched>>

\* The loop of refresh_analyst_stats over the closed investments: the sum of
\* their recomputed returns, and how many of them are > 0.
RECURSIVE SumReturns(_, _)
SumReturns(invs, ids) ==
    IF ids = {} THEN 0
    ELSE LET i == CHOOSE x \in ids : TRUE
             rest == SumReturns(invs, ids \ {i})
         IN  IF invs[i].exit_price = NULL THEN rest
             ELSE rest + ReturnPct(invs[i].signal, invs[i].entry_price, invs[i].exit_price)

CountWins(invs, ids) ==
    Cardinality({i \in ids :
        /\ invs[i].exit_price # NULL
        /\ ReturnPct(invs[i].signal, invs[i].entry_price, invs[i].exit_price) > 0})

\* refresh_analyst_stats that stores total_return unrounded.
RefreshedStatsUnrounded(st, ms, invs, a) ==
    LET closed_investments == ClosedInvestmentsByAnalyst(invs, a)
    IN  UpdateStats(st, a,
            CountMemosByAnalyst(ms, a),
            CountApprovedByAnalyst(ms, a),
            CountWins(invs, closed_investments),
            SumReturns(invs, closed_investments))

\* AnalystService.refresh_analyst_stats: the row recomputed from the tables.
RefreshedStats(st, ms, invs, a) ==
    LET closed_investments == ClosedInvestmentsByAnalyst(invs, a)
    IN  UpdateStats(st, a,
            CountMemosByAnalyst(ms, a),
            CountApprovedByAnalyst(ms, a),
            CountWins(invs, closed_investments),
            Round2(SumReturns(invs, closed_investments)))

refresh_analyst_stats(a) ==
    /\ Called("refresh_analyst_stats", 0)
    /\ stats' = RefreshedStats(stats, memos, investments, a)
    /\ ret' = "ok"
    /\ UNCHANGED <<memos, investments, now, sess, gate, scan, score, board, watch, sched>>

----------------------------------------------------------------------------
(* Initial state: empty tables, nothing called *)

GateIdle == [pc |-> "idle"]
ScanIdle == [pc |-> "idle"]
ScoreIdle == [pc |-> "idle"]
BoardIdle == [pc |-> "idle"]
WatchIdle == [pc |-> "idle"]
SchedIdle == [pc |-> "idle"]

DbInit ==
    /\ memos = <<>>
    /\ investments = <<>>
    /\ stats = [a \in Analysts |-> NoStats]
    /\ now = 1

Init ==
    /\ DbInit
    /\ call = NoCall
    /\ ret = "none"
    /\ sess = [s \in Sessions |-> IdleSession]
    /\ gate = GateIdle
    /\ scan = ScanIdle
    /\ score = ScoreIdle
    /\ board = BoardIdle
    /\ watch = WatchIdle
    /\ sched = SchedIdle

Next ==
    \/ \E inp \in MemoInputs : create_memo(inp)
    \/ \E id \in MemoIds, p \in EntryOverrides : approve_memo(id, p)
    \/ \E id \in MemoIds : reject_memo(id)
    \/ \E id \in InvestmentIds, p \in ExitPrices, d \in ExitDates : close_investment(id, p, d)
    \/ \E a \in Analysts : refresh_analyst_stats(a)

Spec == Init /\ [][Next]_vars

\* The answer of a route that reports every failure as a missing entity.
RouteStatusNotFound(result, existing) == IF result THEN 200 ELSE 404

\* routes/inbox.py approve_memo and reject_memo, routes/investments.py
\* close_investment: 200 when the service returned the entity; otherwise the
\* route looks the id up again and answers 404 or 400.
RouteStatus(result, existing) ==
    IF result THEN 200 ELSE IF ~existing THEN 404 ELSE 400

\* AnalystStatsWithRates: win_rate and approval_rate in percent, scaled.
WinRate(row) ==
    IF row.approved_count > 0
    THEN (row.win_count * 100 * Scale) \div row.approved_count ELSE 0

ApprovalRate(row) ==
    IF row.total_memos > 0
    THEN (row.approved_count * 100 * Scale) \div row.total_memos ELSE 0

----------------------------------------------------------------------------
(* Concurrent requests.  Every request has its own Session (get_db), and    *)
(* every repository method ends in its own commit, so a service call is a   *)
(* series of transactions.  A step below is one statement or one commit of  *)
(* a request; between two steps any other request may run.  A Session keeps *)
(* the rows it loaded (identity map): a row read before is not read again   *)
(* until the Session commits.                                               *)

SetSess(s, pc, memo, row, r) ==
    sess' = [sess EXCEPT ![s].pc = pc, ![s].memo = memo, ![s].row = row, ![s].ret = r]

Finish(s, r) ==
    sess' = [sess EXCEPT ![s] = [IdleSession EXCEPT
                !.op = sess[s].op, !.id = sess[s].id, !.ret = r]]

\* The tables as request s sees them: its loaded memo row in place of the stored one.
MemoView(s) ==
    [i \in DOMAIN memos |-> IF i = sess[s].id /\ sess[s].memo.status # "absent"
                            THEN sess[s].memo ELSE memos[i]]

\* The analyst whose counters request s updates.
SessAnalyst(s) ==
    IF sess[s].op = "close_investment" THEN sess[s].inv.analyst ELSE sess[s].memo.analyst

\* The investments as request s sees them: its loaded row in place of the stored one.
InvestmentView(s) ==
    [i \in DOMAIN investments |->
        IF i = sess[s].id /\ sess[s].inv.status # "absent" THEN sess[s].inv
        ELSE investments[i]]

\* InboxService.create_memo, first transaction: the memo row is inserted.
conc_create_memo(s, inp) ==
    /\ sess[s].pc = "idle"
    /\ Len(memos) < MaxConcMemos
    /\ memos' = RepoCreateMemo(memos, inp)
    /\ sess' = [sess EXCEPT ![s] = [pc |-> "stats_query", op |-> "create_memo",
                                    id |-> Len(memos) + 1, price |-> NULL,
                                    memo |-> NewMemo(inp), inv |-> NoInvestment,
                                    row |-> NoStats, ret |-> "none"]]
    /\ UNCHANGED <<investments, stats, now, call, ret, gate, scan, score, board, watch, sched>>

\* InboxService.approve_memo, lines 54-59: the memo is loaded and checked.
conc_approve_load(s, memo_id, entry_price) ==
    /\ sess[s].pc = "idle"
    /\ IF ~PendingMemo(memos, memo_id)
       THEN sess' = [sess EXCEPT ![s] = [IdleSession EXCEPT
                        !.op = "approve_memo", !.id = memo_id, !.ret = "none"]]
       ELSE sess' = [sess EXCEPT ![s] = [pc |-> "approve_commit", op |-> "approve_memo",
                                        id |-> memo_id, price |-> entry_price,
                                        memo |-> memos[memo_id], inv |-> NoInvestment,
                                        row |-> NoStats, ret |-> "none"]]
    /\ UNCHANGED <<memos, investments, stats, now, call, ret, gate, scan, score, board, watch, sched>>

\* MemoRepository.approve_memo in the request's Session: the check reads the
\* loaded row, the commit writes status and reviewed_at of the stored row.
conc_approve_commit(s) ==
    /\ sess[s].pc = "approve_commit"
    /\ LET approved == RepoApproveMemo(MemoView(s), sess[s].id, now)
       IN  IF ~approved.ok
           THEN Finish(s, "none") /\ UNCHANGED <<memos, now>>
           ELSE /\ memos' = [memos EXCEPT
                        ![sess[s].id].status = approved.memos[sess[s].id].status,
                        ![sess[s].id].reviewed_at = approved.memos[sess[s].id].reviewed_at]
                /\ now' = now + 1
                /\ SetSess(s, "approve_invest", approved.memos[sess[s].id], NoStats, "none")
    /\ UNCHANGED <<investments, stats, call, ret, gate, scan, score, board, watch, sched>>

\* InboxService.approve_memo, lines 70-77: the investment is inserted.
conc_approve_invest(s) ==
    /\ sess[s].pc = "approve_invest"
    /\ LET memo == sess[s].memo
           actual_entry_price ==
               IF sess[s].price # NULL THEN sess[s].price ELSE memo.current_price
       IN  investments' = RepoCreateInvestment(investments, sess[s].id, memo.ticker,
                                memo.analyst, memo.signal, actual_entry_price, now)
    /\ SetSess(s, "stats_query", sess[s].memo, NoStats, "none")
    /\ UNCHANGED <<memos, stats, now, call, ret, gate, scan, score, board, watch, sched>>

\* InvestmentService.close_investment, lines 67-86: the investment is loaded
\* and checked; return_pct and is_win are computed from the loaded row.
conc_close_load(s, investment_id, exit_price) ==
    /\ sess[s].pc = "idle"
    /\ IF investment_id \notin DOMAIN investments
          \/ investments[investment_id].status # "active"
       THEN sess' = [sess EXCEPT ![s] = [IdleSession EXCEPT
                        !.op = "close_investment", !.id = investment_id, !.ret = "none"]]
       ELSE sess' = [sess EXCEPT ![s] = [IdleSession EXCEPT
                        !.pc = "close_commit", !.op = "close_investment",
                        !.id = investment_id, !.price = exit_price,
                        !.inv = investments[investment_id]]]
    /\ UNCHANGED <<memos, investments, stats, now, call, ret, gate, scan, score, board, watch, sched>>

\* InvestmentRepository.close_investment in the request's Session: the check
\* reads the loaded row, the commit writes status, exit_price and exit_date.
conc_close_commit(s, exit_date) ==
    /\ sess[s].pc = "close_commit"
    /\ LET closed == RepoCloseInvestment(InvestmentView(s), sess[s].id,
                                         sess[s].price, exit_date)
           row == closed.investments[sess[s].id]
       IN  IF ~closed.ok
           THEN Finish(s, "none") /\ UNCHANGED investments
           ELSE /\ investments' = [investments EXCEPT
                        ![sess[s].id].status = row.status,
                        ![sess[s].id].exit_price = row.exit_price,
                        ![sess[s].id].exit_date = row.exit_date]
                /\ sess' = [sess EXCEPT ![s].pc = "stats_query"]
    /\ UNCHANGED <<memos, stats, now, call, ret, gate, scan, score, board, watch, sched>>

\* get_or_create_stats, line 16: the analyst's row is loaded, if there is one.
conc_stats_query(s) ==
    /\ sess[s].pc = "stats_query"
    /\ IF stats[SessAnalyst(s)].exists
       THEN SetSess(s, "stats_write", sess[s].memo, stats[SessAnalyst(s)], "none")
       ELSE SetSess(s, "stats_insert", sess[s].memo, NoStats, "none")
    /\ UNCHANGED <<memos, investments, stats, now, call, ret, gate, scan, score, board, watch, sched>>

\* get_or_create_stats, lines 18-27: the zero row is inserted; the primary key
\* refuses it when another request has inserted the row since the query.
conc_stats_insert(s) ==
    /\ sess[s].pc = "stats_insert"
    /\ IF stats[SessAnalyst(s)].exists
       THEN Finish(s, "error") /\ UNCHANGED stats
       ELSE /\ stats' = GetOrCreateStats(stats, SessAnalyst(s))
            /\ SetSess(s, "stats_write", sess[s].memo,
                       GetOrCreateStats(stats, SessAnalyst(s))[SessAnalyst(s)], "none")
    /\ UNCHANGED <<memos, investments, now, call, ret, gate, scan, score, board, watch, sched>>

\* increment_total_memos / increment_approved_count / record_investment_result:
\* the loaded values are updated, written to the stored row and committed;
\* the call returns.
conc_stats_write(s) ==
    /\ sess[s].pc = "stats_write"
    /\ LET a == SessAnalyst(s)
           loaded == [stats EXCEPT ![a] = sess[s].row]
       IN  IF sess[s].op = "create_memo"
           THEN stats' = [stats EXCEPT ![a].total_memos =
                                           IncrementTotalMemos(loaded, a)[a].total_memos]
           ELSE IF sess[s].op = "approve_memo"
           THEN stats' = [stats EXCEPT ![a].approved_count =
                                           IncrementApprovedCount(loaded, a)[a].approved_count]
           ELSE LET inv == sess[s].inv
                    return_pct == ReturnPct(inv.signal, inv.entry_price, sess[s].price)
                    recorded == RecordInvestmentResult(loaded, a, return_pct > 0,
                                                       return_pct)[a]
                IN  stats' = [stats EXCEPT ![a].win_count = recorded.win_count,
                                           ![a].total_return = recorded.total_return]
    /\ Finish(s, "ok")
    /\ UNCHANGED <<memos, investments, now, call, ret, gate, scan, score, board, watch, sched>>

\* The request dies between two of its transactions: what it committed stays.
conc_crash(s) ==
    /\ sess[s].pc # "idle"
    /\ Finish(s, "crashed")
    /\ UNCHANGED <<memos, investments, stats, now, call, ret, gate, scan, score, board, watch, sched>>

NextConc ==
    \E s \in Sessions :
        \/ \E inp \in MemoInputs : conc_create_memo(s, inp)
        \/ \E id \in MemoIds, p \in EntryOverrides : conc_approve_load(s, id, p)
        \/ conc_approve_commit(s)
        \/ conc_approve_invest(s)
        \/ \E id \in InvestmentIds, p \in ConcExitPrices : conc_close_load(s, id, p)
        \/ \E d \in ExitDates : conc_close_commit(s, d)
        \/ conc_stats_query(s)
        \/ conc_stats_insert(s)
        \/ conc_stats_write(s)
        \/ conc_crash(s)

SpecConc == Init /\ [][NextConc]_vars

\* Two requests approving memos of one analyst: the tables as two create_memo
\* calls for that analyst leave them, and no request dies.
InitApprovals ==
    /\ \E inp \in MemoInputs :
          /\ memos = RepoCreateMemo(RepoCreateMemo(<<>>, inp), inp)
          /\ stats = IncrementTotalMemos(
                         IncrementTotalMemos([a \in Analysts |-> NoStats], inp.analyst),
                         inp.analyst)
    /\ investments = <<>>
    /\ now = 1
    /\ call = NoCall
    /\ ret = "none"
    /\ sess = [s \in Sessions |-> IdleSession]
    /\ gate = GateIdle
    /\ scan = ScanIdle
    /\ score = ScoreIdle
    /\ board = BoardIdle
    /\ watch = WatchIdle
    /\ sched = SchedIdle

NextApprovals ==
    \E s \in Sessions :
        \/ \E id \in DOMAIN memos, p \in EntryOverrides : conc_approve_load(s, id, p)
        \/ conc_approve_commit(s)
        \/ conc_approve_invest(s)
        \/ conc_stats_query(s)
        \/ conc_stats_write(s)

SpecApprovals == InitApprovals /\ [][NextApprovals]_vars

----------------------------------------------------------------------------
(* The memo gate: from an analyst's (signal, confidence) to an InvestmentMemo *)

Signals == {"bullish", "bearish", "neutral"}       \* BillAckmanSignal.signal
Confidences == MinConviction..MaxConviction         \* confidence 0-100

\* What the memo-generation judgment step may return (signal, confidence);
\* [neutral, 50] is create_default_memo, its fallback.
DefaultMemoOutput == [signal |-> "neutral", confidence |-> 50]
MemoOutputs ==
    {DefaultMemoOutput} \cup
    [signal : Signals, confidence : {0, 69, 70, 100}]

NoGateMemo == [exists |-> FALSE, signal |-> "", conviction |-> 0]

\* should_generate_memo with > in place of >=.
ShouldGenerateMemoStrict(conviction) == conviction > ConvictionThreshold

\* should_generate_memo
ShouldGenerateMemo(conviction) == conviction >= ConvictionThreshold

\* InvestmentMemo(...): the field validation of signal and conviction.
ValidInvestmentMemo(signal, conviction) ==
    /\ signal \in {"bullish", "bearish"}
    /\ conviction >= MinConviction
    /\ conviction <= MaxConviction

\* Scanner._extract_memo_from_signal: None when the gate refuses the signal
\* or when building the InvestmentMemo raises (caught, line 350).
ExtractMemoFromSignal(signal, confidence) ==
    IF signal = "neutral" \/ ~ShouldGenerateMemo(confidence) THEN NoGateMemo
    ELSE IF ~ValidInvestmentMemo(signal, confidence) THEN NoGateMemo
    ELSE [exists |-> TRUE, signal |-> signal, conviction |-> confidence]

\* run_bill_ackman_with_memo / run_michael_burry_with_memo for one ticker:
\* the memo is built from the judgment step's output; a ValidationError of
\* InvestmentMemo is not caught.
RunWithMemo(signal, confidence, memo_output) ==
    IF ShouldGenerateMemo(confidence) /\ signal # "neutral"
    THEN IF ValidInvestmentMemo(memo_output.signal, memo_output.confidence)
         THEN [raised |-> FALSE,
               memo |-> [exists |-> TRUE, signal |-> memo_output.signal,
                         conviction |-> memo_output.confidence]]
         ELSE [raised |-> TRUE, memo |-> NoGateMemo]
    ELSE [raised |-> FALSE, memo |-> NoGateMemo]

GateInputs ==
    [pc : {"input"}, signal : Signals, confidence : Confidences,
     memo_output : MemoOutputs, memo : {NoGateMemo}, raised : {FALSE}]

extract_memo_from_signal ==
    /\ gate.pc = "input"
    /\ gate' = [gate EXCEPT !.pc = "extracted",
                            !.memo = ExtractMemoFromSignal(gate.signal, gate.confidence)]
    /\ UNCHANGED <<memos, investments, stats, now, call, ret, sess, scan, score, board, watch, sched>>

run_with_memo ==
    /\ gate.pc = "input"
    /\ LET r == RunWithMemo(gate.signal, gate.confidence, gate.memo_output)
       IN  gate' = [gate EXCEPT !.pc = "factory", !.memo = r.memo, !.raised = r.raised]
    /\ UNCHANGED <<memos, investments, stats, now, call, ret, sess, scan, score, board, watch, sched>>

InitGate ==
    /\ DbInit
    /\ call = NoCall
    /\ ret = "none"
    /\ sess = [s \in Sessions |-> IdleSession]
    /\ gate \in GateInputs
    /\ scan = ScanIdle
    /\ score = ScoreIdle
    /\ board = BoardIdle
    /\ watch = WatchIdle
    /\ sched = SchedIdle

NextGate == extract_memo_from_signal \/ run_with_memo

SpecGate == InitGate /\ [][NextGate]_vars

----------------------------------------------------------------------------
(* The scanner: run_full_scan over a universe, one ticker per step *)

TickerNames == <<"AAPL", "MSFT", "NVDA", "TSLA">>
Universes == {[i \in 1..n |-> TickerNames[i]] : n \in 0..MaxTickers}

BatchSizes == {0 - 1, 0, 1, 2}          \* ScanConfig.batch_size: any int
Thresholds == {60, ConvictionThreshold, 80}  \* ScanConfig.conviction_threshold

ScanAnalystOrder == <<"michael_burry", "bill_ackman">>   \* self.analysts, in DEFAULT_ANALYSTS order
ScanAnalysts == {ScanAnalystOrder[i] : i \in DOMAIN ScanAnalystOrder}

\* What one analyst does on one ticker: it raises, or it returns a signal.
\* [neutral, 0] is the analysts' default on a failed judgment call.
AnalystOutcomes ==
    { [raised |-> TRUE,  signal |-> "neutral", confidence |-> 0],
      [raised |-> FALSE, signal |-> "neutral", confidence |-> 0],
      [raised |-> FALSE, signal |-> "bullish", confidence |-> 85],
      [raised |-> FALSE, signal |-> "bearish", confidence |-> 70] }

\* What analyze_ticker_async does on one ticker: it raises, or every analyst runs.
TickerOutcomes ==
    [raised : {TRUE}, results : {[a \in ScanAnalysts |-> CHOOSE o \in AnalystOutcomes : o.raised]}]
    \cup [raised : {FALSE}, results : [ScanAnalysts -> AnalystOutcomes]]

\* Before the first ticker nothing has been returned by analyze_ticker_async.
NoOutcome ==
    [raised |-> FALSE,
     results |-> [a \in ScanAnalysts |->
                     [raised |-> FALSE, signal |-> "neutral", confidence |-> 0]]]

\* ScanResult(...) as run_full_scan constructs it.
NewScanResult(universe, conviction_threshold) ==
    [status |-> "running", ended |-> FALSE, total_tickers |-> Len(universe),
     conviction_threshold |-> conviction_threshold, tickers_scanned |-> 0,
     memos_generated |-> 0, high_conviction_memos |-> <<>>, errors |-> <<>>]

\* analyze_ticker whose loop ends at the first analyst that raises.
RECURSIVE AnalyzeTickerUntilRaise(_, _, _)
AnalyzeTickerUntilRaise(ticker, results, i) ==
    IF i > Len(ScanAnalystOrder) THEN <<>>
    ELSE LET a == ScanAnalystOrder[i]
             o == results[a]
             m == ExtractMemoFromSignal(o.signal, o.confidence)
             rest == AnalyzeTickerUntilRaise(ticker, results, i + 1)
         IN  IF o.raised THEN <<>>
             ELSE IF ~m.exists THEN rest
             ELSE <<[ticker |-> ticker, analyst |-> a, signal |-> m.signal,
                     conviction |-> m.conviction]>> \o rest

\* Scanner.analyze_ticker: the memos of the analysts, in order; an analyst
\* that raises is logged and skipped.
RECURSIVE AnalyzeTicker(_, _, _)
AnalyzeTicker(ticker, results, i) ==
    IF i > Len(ScanAnalystOrder) THEN <<>>
    ELSE LET a == ScanAnalystOrder[i]
             o == results[a]
             m == ExtractMemoFromSignal(o.signal, o.confidence)
             rest == AnalyzeTicker(ticker, results, i + 1)
         IN  IF o.raised \/ ~m.exists THEN rest
             ELSE <<[ticker |-> ticker, analyst |-> a, signal |-> m.signal,
                     conviction |-> m.conviction]>> \o rest

\* add_memo without the threshold test.
AddMemoUnfiltered(result, memo) ==
    [result EXCEPT !.high_conviction_memos = Append(@, memo),
                   !.memos_generated = @ + 1]

\* ScanResult.add_memo
AddMemo(result, memo) ==
    IF memo.conviction >= result.conviction_threshold
    THEN [result EXCEPT !.high_conviction_memos = Append(@, memo),
                        !.memos_generated = @ + 1]
    ELSE result

RECURSIVE AddMemos(_, _)
AddMemos(result, ms) ==
    IF ms = <<>> THEN result ELSE AddMemos(AddMemo(result, Head(ms)), Tail(ms))

\* scan_batch's loop body with an except branch that records nothing.
ScanTickerSilent(result, ticker, outcome) ==
    IF outcome.raised
    THEN result
    ELSE [AddMemos(result, AnalyzeTicker(ticker, outcome.results, 1))
             EXCEPT !.tickers_scanned = @ + 1]

\* A loop body that gives up on every ticker once an error is recorded.
ScanTickerAfterError(result, ticker, outcome) ==
    IF result.errors # <<>> THEN result
    ELSE IF outcome.raised
    THEN [result EXCEPT !.errors = Append(@, [kind |-> "ticker", ticker |-> ticker])]
    ELSE [AddMemos(result, AnalyzeTicker(ticker, outcome.results, 1))
             EXCEPT !.tickers_scanned = @ + 1]

\* The body of scan_batch's loop for one ticker: the increment is the last
\* statement of the try block, the except branch only records the error.
ScanTicker(result, ticker, outcome) ==
    IF outcome.raised
    THEN [result EXCEPT !.errors = Append(@, [kind |-> "ticker", ticker |-> ticker])]
    ELSE [AddMemos(result, AnalyzeTicker(ticker, outcome.results, 1))
             EXCEPT !.tickers_scanned = @ + 1]

\* ScanResult.complete
Complete(result) == [result EXCEPT !.ended = TRUE, !.status = "completed"]

\* fail that leaves end_time unset.
FailWithoutEndTime(result) ==
    [result EXCEPT !.status = "failed",
                   !.errors = Append(@, [kind |-> "driver", ticker |-> ""])]

\* ScanResult.fail
Fail(result) ==
    [result EXCEPT !.ended = TRUE, !.status = "failed",
                   !.errors = Append(@, [kind |-> "driver", ticker |-> ""])]

ScanInputs ==
    [pc : {"ready"}, universe : Universes, batch_size : BatchSizes,
     conviction_threshold : Thresholds, pos : {1}, sleeps : {0}, log : {<<>>},
     outcome : {NoOutcome}, memos : {<<>>},
     result : {NewScanResult(<<>>, ConvictionThreshold)}]

\* run_full_scan up to the first ticker: the result is constructed and the
\* universe cut into batches; range() raises on a step of 0, and a negative
\* step yields no batch.
scan_start ==
    /\ scan.pc = "ready"
    /\ LET result == NewScanResult(scan.universe, scan.conviction_threshold)
       IN  IF scan.batch_size = 0
           THEN scan' = [scan EXCEPT !.pc = "done", !.result = Fail(result)]
           ELSE IF scan.batch_size < 0 \/ scan.universe = <<>>
           THEN scan' = [scan EXCEPT !.pc = "completing", !.result = result]
           ELSE scan' = [scan EXCEPT !.pc = "batch", !.result = result]
    /\ UNCHANGED <<memos, investments, stats, now, call, ret, sess, gate, score, board, watch, sched>>

\* A driver that waits after every ticker but the last.
AfterTickerSleepEach(pos, total, batch_size) ==
    IF pos = total THEN "completing" ELSE "sleep"

\* Where run_full_scan goes after the ticker at pos: out of the loop after the
\* last batch, into the delay when the batch is over and another follows
\* (batch_num < len(batches)), else on to the next ticker of the batch.
AfterTicker(pos, total, batch_size) ==
    IF pos = total THEN "completing"
    ELSE IF pos % batch_size = 0 THEN "sleep" ELSE "batch"

\* scan_batch: the next ticker of the current batch is processed.
scan_ticker(outcome) ==
    /\ scan.pc = "batch"
    /\ LET result == ScanTicker(scan.result, scan.universe[scan.pos], outcome)
           returned == IF outcome.raised THEN <<>>
                       ELSE AnalyzeTicker(scan.universe[scan.pos], outcome.results, 1)
       IN  scan' = [scan EXCEPT
                       !.result = result,
                       !.outcome = outcome,
                       !.memos = returned,
                       !.pos = @ + 1,
                       !.log = Append(@, scan.universe[scan.pos]),
                       !.pc = AfterTicker(scan.pos, Len(scan.universe), scan.batch_size)]
    /\ UNCHANGED <<memos, investments, stats, now, call, ret, sess, gate, score, board, watch, sched>>

\* asyncio.sleep(rate_limit_delay) between two batches.
scan_sleep ==
    /\ scan.pc = "sleep"
    /\ scan' = [scan EXCEPT !.pc = "batch", !.sleeps = @ + 1,
                            !.log = Append(@, "sleep")]
    /\ UNCHANGED <<memos, investments, stats, now, call, ret, sess, gate, score, board, watch, sched>>

\* result.complete() after the last batch; run_full_scan returns.
scan_complete ==
    /\ scan.pc = "completing"
    /\ scan' = [scan EXCEPT !.pc = "done", !.result = Complete(scan.result)]
    /\ UNCHANGED <<memos, investments, stats, now, call, ret, sess, gate, score, board, watch, sched>>

InitScan ==
    /\ DbInit
    /\ call = NoCall
    /\ ret = "none"
    /\ sess = [s \in Sessions |-> IdleSession]
    /\ gate = GateIdle
    /\ scan \in ScanInputs
    /\ score = ScoreIdle
    /\ board = BoardIdle
    /\ watch = WatchIdle
    /\ sched = SchedIdle

NextScan ==
    \/ scan_start
    \/ \E outcome \in TickerOutcomes : scan_ticker(outcome)
    \/ scan_sleep
    \/ scan_complete

SpecScan == InitScan /\ [][NextScan]_vars

\* Every step of run_full_scan is an awaited call that returns or raises, so
\* an enabled step is eventually taken.
SpecScanLive == SpecScan /\ WF_vars(NextScan)

\* scan_batch over the tickers from position i on: the result after the last.
RECURSIVE ScanAll(_, _, _, _)
ScanAll(result, universe, outcomes, i) ==
    IF i > Len(universe) THEN result
    ELSE ScanAll(ScanTicker(result, universe[i], outcomes[universe[i]]),
                 universe, outcomes, i + 1)

\* run_full_scan as a function of the universe and of what each ticker's
\* analysis does: the ScanResult it returns.
RunFullScan(universe, outcomes, batch_size, conviction_threshold) ==
    LET result == NewScanResult(universe, conviction_threshold)
    IN  IF batch_size = 0 THEN Fail(result)
        ELSE IF batch_size < 0 THEN Complete(result)
        ELSE Complete(ScanAll(result, universe, outcomes, 1))

\* Two scans of the same tickers in two orders, each ticker's analysis fixed.
OrderInputs ==
    UNION {[pc : {"ready"}, universe : {u},
            order : {p \in [DOMAIN u -> DOMAIN u] :
                        \A i, j \in DOMAIN u : i # j => p[i] # p[j]},
            outcomes : [{u[i] : i \in DOMAIN u} -> TickerOutcomes],
            batch_size : {1, 2}, conviction_threshold : Thresholds,
            first : {NewScanResult(<<>>, ConvictionThreshold)},
            second : {NewScanResult(<<>>, ConvictionThreshold)}] : u \in Universes}

scan_in_both_orders ==
    /\ scan.pc = "ready"
    /\ LET permuted == [i \in DOMAIN scan.universe |-> scan.universe[scan.order[i]]]
       IN  scan' = [scan EXCEPT
                       !.pc = "done",
                       !.first = RunFullScan(scan.universe, scan.outcomes,
                                             scan.batch_size, scan.conviction_threshold),
                       !.second = RunFullScan(permuted, scan.outcomes,
                                              scan.batch_size, scan.conviction_threshold)]
    /\ UNCHANGED <<memos, investments, stats, now, call, ret, sess, gate, score, board, watch, sched>>

InitOrder ==
    /\ DbInit
    /\ call = NoCall
    /\ ret = "none"
    /\ sess = [s \in Sessions |-> IdleSession]
    /\ gate = GateIdle
    /\ scan \in OrderInputs
    /\ score = ScoreIdle
    /\ board = BoardIdle
    /\ watch = WatchIdle
    /\ sched = SchedIdle

NextOrder == scan_in_both_orders

SpecOrder == InitOrder /\ [][NextOrder]_vars

----------------------------------------------------------------------------
(* The manual scan: run_manual_scan after run_full_scan has returned *)

MaxErrors == 6         \* error entries of the scan
ErrorsShown == 5       \* result.errors[:5]

\* errors[:5]
FirstErrors(errors) ==
    SubSeq(errors, 1, IF Len(errors) < ErrorsShown THEN Len(errors) ELSE ErrorsShown)

ErrorTickerNames == <<"AAPL", "MSFT", "NVDA", "TSLA", "AMZN", "META", "GOOG">>

\* What run_full_scan can hand back: its status and counts, up to MaxErrors
\* per-ticker errors and up to MaxMemos memos.
ManualScanResults ==
    [status : {"completed", "failed"}, tickers_scanned : {0, 2},
     errors : {[i \in 1..n |-> [kind |-> "ticker", ticker |-> ErrorTickerNames[i]]] :
                  n \in 0..MaxErrors},
     high_conviction_memos : UNION {[1..n -> MemoInputs] : n \in 0..MaxMemos}]

NoSummary == [status |-> "none", tickers_scanned |-> 0, memos_generated |-> 0,
              errors |-> <<>>]

ManualInputs ==
    [pc : {"persist"}, result : ManualScanResults, next : {1}, submitted_count : {0},
     failed : {{}}, summary : {NoSummary}]

ManualFrame == UNCHANGED <<investments, now, call, ret, sess, gate, score, board, watch, sched>>

\* One turn of the loop: inbox_service.create_memo returned.
manual_create_memo ==
    /\ scan.pc = "persist"
    /\ scan.next <= Len(scan.result.high_conviction_memos)
    /\ LET memo == scan.result.high_conviction_memos[scan.next]
       IN  /\ memos' = RepoCreateMemo(memos, memo)
           /\ stats' = IncrementTotalMemos(stats, memo.analyst)
    /\ scan' = [scan EXCEPT !.next = @ + 1, !.submitted_count = @ + 1]
    /\ ManualFrame

\* One turn of the loop: the memo's insert raised; the except branch logs it.
manual_create_memo_raises ==
    /\ scan.pc = "persist"
    /\ scan.next <= Len(scan.result.high_conviction_memos)
    /\ scan' = [scan EXCEPT !.next = @ + 1, !.failed = @ \cup {scan.next}]
    /\ UNCHANGED <<memos, stats>>
    /\ ManualFrame

\* One turn of the loop: the memo was committed and increment_total_memos,
\* the second commit of create_memo, raised; the except branch logs it.
manual_increment_raises ==
    /\ scan.pc = "persist"
    /\ scan.next <= Len(scan.result.high_conviction_memos)
    /\ memos' = RepoCreateMemo(memos, scan.result.high_conviction_memos[scan.next])
    /\ scan' = [scan EXCEPT !.next = @ + 1, !.failed = @ \cup {scan.next}]
    /\ UNCHANGED stats
    /\ ManualFrame

\* After the loop: the summary is returned.
manual_return ==
    /\ scan.pc = "persist"
    /\ scan.next > Len(scan.result.high_conviction_memos)
    /\ scan' = [scan EXCEPT
                   !.pc = "done",
                   !.summary = [status |-> scan.result.status,
                                tickers_scanned |-> scan.result.tickers_scanned,
                                memos_generated |-> scan.submitted_count,
                                errors |-> FirstErrors(scan.result.errors)]]
    /\ UNCHANGED <<memos, stats>>
    /\ ManualFrame

InitManual ==
    /\ DbInit
    /\ call = NoCall
    /\ ret = "none"
    /\ sess = [s \in Sessions |-> IdleSession]
    /\ gate = GateIdle
    /\ scan \in ManualInputs
    /\ score = ScoreIdle
    /\ board = BoardIdle
    /\ watch = WatchIdle
    /\ sched = SchedIdle

NextManual ==
    \/ manual_create_memo
    \/ manual_create_memo_raises
    \/ manual_increment_raises
    \/ manual_return

SpecManual == InitManual /\ [][NextManual]_vars

----------------------------------------------------------------------------
(* The analyst scorers.  Ratios are in percent (operating_margin 15 = 0.15,  *)
(* debt_to_equity 100 = 1.0); amounts are integers; NULL is None.            *)

MaxItems == 3          \* periods of financial line items fetched

\* One period of search_line_items: nothing reported, all zero, a strong
\* period and a weak one.
Items ==
    {[revenue |-> NULL, free_cash_flow |-> NULL, operating_margin |-> NULL,
      debt_to_equity |-> NULL, total_liabilities |-> NULL, total_assets |-> NULL,
      dividends |-> NULL, outstanding_shares |-> NULL,
      cash_and_equivalents |-> NULL, total_debt |-> NULL],
     [revenue |-> 0, free_cash_flow |-> 0, operating_margin |-> 0,
      debt_to_equity |-> 0, total_liabilities |-> 0, total_assets |-> 0,
      dividends |-> 0, outstanding_shares |-> 0,
      cash_and_equivalents |-> 0, total_debt |-> 0],
     [revenue |-> 200, free_cash_flow |-> 100, operating_margin |-> 20,
      debt_to_equity |-> 30, total_liabilities |-> 40, total_assets |-> 100,
      dividends |-> 0 - 5, outstanding_shares |-> 90,
      cash_and_equivalents |-> 50, total_debt |-> 20],
     [revenue |-> 100, free_cash_flow |-> 0 - 10, operating_margin |-> 0 - 100,
      debt_to_equity |-> 150, total_liabilities |-> 80, total_assets |-> 100,
      dividends |-> 0, outstanding_shares |-> 100,
      cash_and_equivalents |-> 10, total_debt |-> 60]}

\* get_financial_metrics: no period, or one period of the same four kinds.
MetricsLists ==
    {<<>>,
     <<[return_on_equity |-> NULL, ev_to_ebit |-> NULL, debt_to_equity |-> NULL]>>,
     <<[return_on_equity |-> 0, ev_to_ebit |-> 0, debt_to_equity |-> 0]>>,
     <<[return_on_equity |-> 20, ev_to_ebit |-> 5, debt_to_equity |-> 30]>>,
     <<[return_on_equity |-> 10, ev_to_ebit |-> 12, debt_to_equity |-> 150]>>}

ItemLists(n) == UNION {[1..k -> Items] : k \in 0..n}      \* newest period first
MarketCaps == {NULL, 0, 500, 1500}
TradeLists == {<<>>, <<NULL>>, <<100>>, <<100, 0 - 40>>, <<100, 0 - 60>>, <<0 - 50>>}
NewsLists == {<<>>,
              [i \in 1..5 |-> "negative"],
              [i \in 1..5 |-> IF i = 1 THEN "none" ELSE "bearish"]}

\* A list [x for x in items if x is not None] is the set of the indices kept;
\* these pick its first and its last element.
First(idx) == CHOOSE i \in idx : \A j \in idx : i <= j
Last(idx) == CHOOSE i \in idx : \A j \in idx : i >= j
Majority(n) == n \div 2 + 1
Abs(x) == IF x < 0 THEN 0 - x ELSE x


\* sum(op_margins)
RECURSIVE SumMargins(_, _)
SumMargins(items, idx) ==
    IF idx = {} THEN 0
    ELSE LET i == CHOOSE x \in idx : TRUE
         IN  items[i].operating_margin + SumMargins(items, idx \ {i})

\* What a sub-analysis returns: its score, its max_score when it reports one,
\* or the exception it raised.
Scored(n) == [score |-> n, max_score |-> NULL, raised |-> FALSE]
ScoredOf(n, max_score) == [score |-> n, max_score |-> max_score, raised |-> FALSE]
Raised == [score |-> 0, max_score |-> NULL, raised |-> TRUE]

\* bill_ackman.analyze_business_quality
AnalyzeBusinessQuality(metrics, items) ==
    IF metrics = <<>> \/ items = <<>> THEN Scored(0)
    ELSE LET rev == {i \in DOMAIN items : items[i].revenue # NULL}
             initial == items[Last(rev)].revenue
             final == items[First(rev)].revenue
             growth == IF Cardinality(rev) >= 2 /\ initial # 0 /\ final # 0 /\ final > initial
                       THEN (IF (final - initial) * 2 > Abs(initial) THEN 2 ELSE 1)
                       ELSE 0
             om == {i \in DOMAIN items : items[i].operating_margin # NULL}
             above_15 == Cardinality({i \in om : items[i].operating_margin > 15})
             margin == IF om # {} /\ above_15 >= Majority(Cardinality(om)) THEN 2 ELSE 0
             fcf == {i \in DOMAIN items : items[i].free_cash_flow # NULL}
             positive_fcf == Cardinality({i \in fcf : items[i].free_cash_flow > 0})
             cash == IF fcf # {} /\ positive_fcf >= Majority(Cardinality(fcf)) THEN 1 ELSE 0
             roe == metrics[1].return_on_equity
             equity == IF roe # NULL /\ roe # 0 /\ roe > 15 THEN 2 ELSE 0
         IN  Scored(growth + margin + cash + equity)

\* bill_ackman.analyze_financial_discipline
AnalyzeFinancialDiscipline(metrics, items) ==
    IF metrics = <<>> \/ items = <<>> THEN Scored(0)
    ELSE LET de == {i \in DOMAIN items : items[i].debt_to_equity # NULL}
             below_one == Cardinality({i \in de : items[i].debt_to_equity < 100})
             la == {i \in DOMAIN items :
                      /\ items[i].total_liabilities # NULL /\ items[i].total_liabilities # 0
                      /\ items[i].total_assets # NULL /\ items[i].total_assets # 0
                      /\ items[i].total_assets > 0}
             below_half == Cardinality({i \in la :
                               2 * items[i].total_liabilities < items[i].total_assets})
             leverage == IF de # {}
                         THEN (IF below_one >= Majority(Cardinality(de)) THEN 2 ELSE 0)
                         ELSE IF la # {} /\ below_half >= Majority(Cardinality(la))
                         THEN 2 ELSE 0
             dv == {i \in DOMAIN items : items[i].dividends # NULL}
             paying == Cardinality({i \in dv : items[i].dividends < 0})
             payout == IF dv # {} /\ paying >= Majority(Cardinality(dv)) THEN 1 ELSE 0
             sh == {i \in DOMAIN items : items[i].outstanding_shares # NULL}
             buyback == IF Cardinality(sh) >= 2
                           /\ items[First(sh)].outstanding_shares
                                < items[Last(sh)].outstanding_shares
                        THEN 1 ELSE 0
         IN  Scored(leverage + payout + buyback)

\* bill_ackman.analyze_activism_potential: revenue_growth > 0.15 and
\* avg_margin < 0.10; a zero initial revenue gives revenue_growth = 0.
AnalyzeActivismPotential(items) ==
    IF items = <<>> THEN Scored(0)
    ELSE LET rev == {i \in DOMAIN items : items[i].revenue # NULL}
             om == {i \in DOMAIN items : items[i].operating_margin # NULL}
             initial == items[Last(rev)].revenue
             final == items[First(rev)].revenue
             growing == initial # 0 /\ (final - initial) * 100 > 15 * Abs(initial)
             low_margin == SumMargins(items, om) < 10 * Cardinality(om)
         IN  IF Cardinality(rev) < 2 \/ om = {} THEN Scored(0)
             ELSE IF growing /\ low_margin THEN Scored(2) ELSE Scored(0)

\* The discounted value of 1 of free cash flow, in thousandths: five years at
\* 6% growth discounted at 10%, plus a terminal multiple of 15.
DcfMultiple == 16944

\* bill_ackman.analyze_valuation: margin_of_safety divides by market_cap.
AnalyzeValuation(items, market_cap) ==
    IF items = <<>> \/ market_cap = NULL THEN Scored(0)
    ELSE LET latest == items[1]
             fcf == IF latest.free_cash_flow # NULL /\ latest.free_cash_flow # 0
                    THEN latest.free_cash_flow ELSE 0
             intrinsic == DcfMultiple * fcf                   \* thousandths
             excess == intrinsic - 1000 * market_cap          \* thousandths
         IN  IF fcf <= 0 THEN Scored(0)
             ELSE IF market_cap = 0 THEN Raised
             ELSE IF excess * 10 > 3 * 1000 * market_cap THEN Scored(3)
             ELSE IF excess * 10 > 1000 * market_cap THEN Scored(1)
             ELSE Scored(0)

\* michael_burry._analyze_value: FCF yield and EV/EBIT.
BurryAnalyzeValue(metrics, items, market_cap) ==
    LET fcf == IF items = <<>> THEN NULL ELSE items[1].free_cash_flow
        yield == IF fcf # NULL /\ market_cap # NULL /\ market_cap # 0
                 THEN (IF fcf * 100 >= 15 * market_cap THEN 4
                       ELSE IF fcf * 100 >= 12 * market_cap THEN 3
                       ELSE IF fcf * 100 >= 8 * market_cap THEN 2 ELSE 0)
                 ELSE 0
        ev_ebit == IF metrics = <<>> THEN NULL ELSE metrics[1].ev_to_ebit
        multiple == IF ev_ebit = NULL THEN 0
                    ELSE IF ev_ebit < 6 THEN 2 ELSE IF ev_ebit < 10 THEN 1 ELSE 0
    IN  ScoredOf(yield + multiple, 6)

\* michael_burry._analyze_balance_sheet
BurryAnalyzeBalanceSheet(metrics, items) ==
    LET debt_to_equity == IF metrics = <<>> THEN NULL ELSE metrics[1].debt_to_equity
        leverage == IF debt_to_equity = NULL THEN 0
                    ELSE IF debt_to_equity < 50 THEN 2
                    ELSE IF debt_to_equity < 100 THEN 1 ELSE 0
        liquidity == IF items # <<>>
                        /\ items[1].cash_and_equivalents # NULL
                        /\ items[1].total_debt # NULL
                        /\ items[1].cash_and_equivalents > items[1].total_debt
                     THEN 1 ELSE 0
    IN  ScoredOf(leverage + liquidity, 3)

\* sum(t.transaction_shares or 0 for t in insider_trades if ... > 0 / < 0)
RECURSIVE SharesBought(_)
SharesBought(trades) ==
    IF trades = <<>> THEN 0
    ELSE (IF Head(trades) # NULL /\ Head(trades) > 0 THEN Head(trades) ELSE 0)
         + SharesBought(Tail(trades))

RECURSIVE SharesSold(_)
SharesSold(trades) ==
    IF trades = <<>> THEN 0
    ELSE (IF Head(trades) # NULL /\ Head(trades) < 0 THEN 0 - Head(trades) ELSE 0)
         + SharesSold(Tail(trades))

\* michael_burry._analyze_insider_activity
BurryAnalyzeInsiderActivity(trades) ==
    IF trades = <<>> THEN ScoredOf(0, 2)
    ELSE LET shares_bought == SharesBought(trades)
             shares_sold == SharesSold(trades)
             net == shares_bought - shares_sold
             floor == IF shares_sold > 1 THEN shares_sold ELSE 1
         IN  IF net > 0 THEN ScoredOf(IF net > floor THEN 2 ELSE 1, 2)
             ELSE ScoredOf(0, 2)

\* michael_burry._analyze_contrarian_sentiment
BurryAnalyzeContrarianSentiment(news) ==
    LET sentiment_negative_count ==
            Cardinality({i \in DOMAIN news : news[i] \in {"negative", "bearish"}})
    IN  IF news = <<>> THEN ScoredOf(0, 1)
        ELSE ScoredOf(IF sentiment_negative_count >= 5 THEN 1 ELSE 0, 1)

\* The classification with strict comparisons.
ClassifyStrict(total_score, max_score) ==
    IF 10 * total_score > 7 * max_score THEN "bullish"
    ELSE IF 10 * total_score < 3 * max_score THEN "bearish"
    ELSE "neutral"

\* total_score >= 0.7 * max_score / total_score <= 0.3 * max_score: on integer
\* scores the float products compare as the exact ones do.
Classify(total_score, max_score) ==
    IF 10 * total_score >= 7 * max_score THEN "bullish"
    ELSE IF 10 * total_score <= 3 * max_score THEN "bearish"
    ELSE "neutral"

MaxPossibleScore == 20      \* bill_ackman_agent: max_possible_score

RECURSIVE SumScores(_)
SumScores(subs) == IF subs = <<>> THEN 0 ELSE Head(subs).score + SumScores(Tail(subs))

RECURSIVE SumMaxScores(_)
SumMaxScores(subs) ==
    IF subs = <<>> THEN 0 ELSE Head(subs).max_score + SumMaxScores(Tail(subs))

\* The agent's result for one ticker: the sub-analyses in the order they are
\* run, and the aggregate unless one of them raised.
Aggregate(subs, max_score) ==
    IF \E i \in DOMAIN subs : subs[i].raised
    THEN [raised |-> TRUE, subs |-> subs, total_score |-> 0, max_score |-> 0,
          signal |-> "none"]
    ELSE [raised |-> FALSE, subs |-> subs, total_score |-> SumScores(subs),
          max_score |-> max_score,
          signal |-> Classify(SumScores(subs), max_score)]

\* bill_ackman_agent, lines 75-102
BillAckmanAgent(f) ==
    Aggregate(<<AnalyzeBusinessQuality(f.metrics, f.items),
                AnalyzeFinancialDiscipline(f.metrics, f.items),
                AnalyzeActivismPotential(f.items),
                AnalyzeValuation(f.items, f.market_cap)>>,
              MaxPossibleScore)

\* michael_burry_agent, lines 96-129
MichaelBurryAgent(f) ==
    LET subs == <<BurryAnalyzeValue(f.metrics, f.items, f.market_cap),
                  BurryAnalyzeBalanceSheet(f.metrics, f.items),
                  BurryAnalyzeInsiderActivity(f.insider_trades),
                  BurryAnalyzeContrarianSentiment(f.news)>>
    IN  Aggregate(subs, SumMaxScores(subs))

NoResult == [raised |-> FALSE, subs |-> <<>>, total_score |-> 0, max_score |-> 0,
             signal |-> "none"]

\* The facts fetched for one ticker, per analyst.
ScoreInputs ==
    [pc : {"input"}, analyst : {"bill_ackman"}, metrics : MetricsLists,
     items : ItemLists(MaxItems), market_cap : MarketCaps,
     insider_trades : {<<>>}, news : {<<>>}, result : {NoResult}]
    \cup
    [pc : {"input"}, analyst : {"michael_burry"}, metrics : MetricsLists,
     items : ItemLists(1), market_cap : MarketCaps,
     insider_trades : TradeLists, news : NewsLists, result : {NoResult}]

bill_ackman_agent ==
    /\ score.pc = "input"
    /\ score.analyst = "bill_ackman"
    /\ LET result == BillAckmanAgent(score)
       IN  score' = [score EXCEPT !.pc = IF result.raised THEN "raised" ELSE "done",
                                  !.result = result]
    /\ UNCHANGED <<memos, investments, stats, now, call, ret, sess, gate, scan, board, watch, sched>>

michael_burry_agent ==
    /\ score.pc = "input"
    /\ score.analyst = "michael_burry"
    /\ LET result == MichaelBurryAgent(score)
       IN  score' = [score EXCEPT !.pc = IF result.raised THEN "raised" ELSE "done",
                                  !.result = result]
    /\ UNCHANGED <<memos, investments, stats, now, call, ret, sess, gate, scan, board, watch, sched>>

InitScore ==
    /\ DbInit
    /\ call = NoCall
    /\ ret = "none"
    /\ sess = [s \in Sessions |-> IdleSession]
    /\ gate = GateIdle
    /\ scan = ScanIdle
    /\ score \in ScoreInputs
    /\ board = BoardIdle
    /\ watch = WatchIdle
    /\ sched = SchedIdle

NextScore == bill_ackman_agent \/ michael_burry_agent

SpecScore == InitScore /\ [][NextScore]_vars

----------------------------------------------------------------------------
(* The analyst leaderboard.                                                  *)

BoardAnalysts == {"bill_ackman", "michael_burry", "warren_buffett"}

\* The analyst_stats table as a query without ORDER BY returns it: one row per
\* analyst (the primary key), in any order.
StatsTables ==
    {rows \in [1..Cardinality(BoardAnalysts) ->
                  [analyst : BoardAnalysts, approved_count : 0..2, win_count : 0..2,
                   total_return : {0, 250}]] :
        /\ \A i, j \in DOMAIN rows : i # j => rows[i].analyst # rows[j].analyst
        /\ \A i \in DOMAIN rows : rows[i].win_count <= rows[i].approved_count}

\* .filter(AnalystStats.approved_count > 0).all(): the limit is not applied.
GetLeaderboardByWinRate(rows) == SelectSeq(rows, LAMBDA row : row.approved_count > 0)

\* x.win_rate > y.win_rate for win_rate = win_count / approved_count * 100 on
\* rows with approved_count > 0: the float quotients are correctly rounded, so
\* they compare as the fractions do.
HigherWinRate(x, y) == x.win_count * y.approved_count > y.win_count * x.approved_count

\* list.sort(key=win_rate, reverse=True) is stable: equal keys keep their
\* order, so an element goes after every earlier one that is not lower.
InsertDescending(sorted, x) ==
    LET k == Cardinality({i \in DOMAIN sorted : ~HigherWinRate(x, sorted[i])})
    IN  SubSeq(sorted, 1, k) \o <<x>> \o SubSeq(sorted, k + 1, Len(sorted))

\* The list left as the query returned it.
SortByWinRateUnsorted(q) == q

RECURSIVE SortByWinRate(_)
SortByWinRate(q) ==
    IF q = <<>> THEN <<>>
    ELSE InsertDescending(SortByWinRate(SubSeq(q, 1, Len(q) - 1)), q[Len(q)])

\* q[:limit] for limit >= 0, and LIMIT in SQL
Take(q, limit) == SubSeq(q, 1, IF limit < Len(q) THEN limit ELSE Len(q))

\* ORDER BY total_return DESC: any order of the rows that is descending; rows
\* with equal total_return come in an order the database chooses.
GetLeaderboardByTotalReturn(rows, limit) ==
    LET kept == SelectSeq(rows, LAMBDA row : row.approved_count > 0)
        orders == {p \in [DOMAIN kept -> DOMAIN kept] :
                      /\ \A i, j \in DOMAIN kept : i # j => p[i] # p[j]
                      /\ \A i, j \in DOMAIN kept :
                            i < j => kept[p[i]].total_return >= kept[p[j]].total_return}
    IN  {Take([i \in DOMAIN kept |-> kept[p[i]]], limit) : p \in orders}

\* AnalystService.get_leaderboard: the lists it can return.
GetLeaderboard(rows, sort_by, limit) ==
    IF sort_by = "total_return" THEN GetLeaderboardByTotalReturn(rows, limit)
    ELSE {Take(SortByWinRate(GetLeaderboardByWinRate(rows)), limit)}

BoardRequests ==
    [pc : {"request"}, rows : StatsTables, sort_by : {"win_rate", "total_return"},
     limit : {1, 2, 50},            \* limit: int = Query(10, ge=1, le=50)
     result : {<<>>}]

get_leaderboard ==
    /\ board.pc = "request"
    /\ \E result \in GetLeaderboard(board.rows, board.sort_by, board.limit) :
           board' = [board EXCEPT !.pc = "done", !.result = result]
    /\ UNCHANGED <<memos, investments, stats, now, call, ret, sess, gate, scan, score, watch, sched>>

InitBoard ==
    /\ DbInit
    /\ call = NoCall
    /\ ret = "none"
    /\ sess = [s \in Sessions |-> IdleSession]
    /\ gate = GateIdle
    /\ scan = ScanIdle
    /\ score = ScoreIdle
    /\ board \in BoardRequests
    /\ watch = WatchIdle
    /\ sched = SchedIdle

NextBoard == get_leaderboard

SpecBoard == InitBoard /\ [][NextBoard]_vars

----------------------------------------------------------------------------
(* The watchlist.  A string is the sequence of its characters.               *)

MaxRaw == 2            \* tickers in one request, the example apart

\* The characters in use, in ascending code point order.
CharOrder == <<" ", "A", "F", "L", "M", "P", "S", "T",
               "a", "f", "l", "m", "p", "s", "t">>
\* str.upper(), character by character
StrUpper(str) ==
    LET lower == <<"a", "f", "l", "m", "p", "s", "t">>
        upper == <<"A", "F", "L", "M", "P", "S", "T">>
    IN  [k \in DOMAIN str |->
            IF \E i \in DOMAIN lower : lower[i] = str[k]
            THEN upper[CHOOSE i \in DOMAIN lower : lower[i] = str[k]]
            ELSE str[k]]

\* str.strip(): leading and trailing whitespace removed, inner whitespace kept
StrStrip(str) ==
    LET inked == {k \in DOMAIN str : str[k] # " "}
    IN  IF inked = {} THEN <<>>
        ELSE SubSeq(str, CHOOSE k \in inked : \A m \in inked : k <= m,
                         CHOOSE k \in inked : \A m \in inked : k >= m)

\* str < str: the first differing character decides, a proper prefix is less
StrLess(x, y) ==
    LET CodePoint(c) == CHOOSE i \in DOMAIN CharOrder : CharOrder[i] = c
    IN  \E k \in 1..(Len(y)) :
            /\ \A m \in 1..(k - 1) : m <= Len(x) /\ x[m] = y[m]
            /\ \/ k = Len(x) + 1
               \/ k <= Len(x) /\ CodePoint(x[k]) < CodePoint(y[k])

\* [t.strip().upper() for t in tickers if t.strip()]
RECURSIVE NormalizeTickers(_)
NormalizeTickers(tickers) ==
    IF tickers = <<>> THEN <<>>
    ELSE (IF StrStrip(Head(tickers)) # <<>>
          THEN <<StrUpper(StrStrip(Head(tickers)))>> ELSE <<>>)
         \o NormalizeTickers(Tail(tickers))

ToSet(q) == {q[i] : i \in DOMAIN q}

\* list(set(...)) followed by .sort()
RECURSIVE SortedList(_)
SortedList(S) ==
    IF S = {} THEN <<>>
    ELSE LET least == CHOOSE x \in S : \A y \in S \ {x} : StrLess(x, y)
         IN  <<least>> \o SortedList(S \ {least})

NoWatchlist == [exists |-> FALSE, tickers |-> <<>>]

\* The new tickers appended as they came.
AddTickersAppended(w, tickers) ==
    [exists |-> TRUE, tickers |-> w.tickers \o NormalizeTickers(tickers)]

\* WatchlistRepository.add_tickers: creates the watchlist when it is missing
AddTickers(w, tickers) ==
    [exists |-> TRUE,
     tickers |-> SortedList(ToSet(w.tickers \o NormalizeTickers(tickers)))]

\* WatchlistRepository.remove_tickers: nothing happens to a missing watchlist
RemoveTickers(w, tickers) ==
    IF ~w.exists THEN w
    ELSE LET tickers_to_remove == ToSet(NormalizeTickers(tickers))
             Kept(t) == t \notin tickers_to_remove
         IN  [w EXCEPT !.tickers = SelectSeq(w.tickers, Kept)]

\* WatchlistRepository.set_tickers
SetTickers(w, tickers) ==
    [exists |-> TRUE, tickers |-> SortedList(ToSet(NormalizeTickers(tickers)))]

\* WatchlistRepository.clear_watchlist
ClearWatchlist(w) == IF w.exists THEN [w EXCEPT !.tickers = <<>>] ELSE w

\* Ticker strings as a client sends them.
RawTickers ==
    {<<" ", "a", "a", "p", "l", " ">>, <<"M", "S", "F", "T">>, <<"a", "a", "p", "l">>,
     <<"m", "s", "f", "t", " ">>, <<>>, <<" ", " ">>}
ExampleTickers ==
    <<<<" ", "a", "a", "p", "l", " ">>, <<"M", "S", "F", "T">>, <<"a", "a", "p", "l">>>>
RawLists == UNION {[1..n -> RawTickers] : n \in 0..MaxRaw} \cup {ExampleTickers}

\* One call on the default watchlist: the row before it, the call and its
\* argument, and the row as committed.
WatchCall(op, arg, w) ==
    watch' = [pc |-> "ready", op |-> op, arg |-> arg,
              before |-> [exists |-> watch.exists, tickers |-> watch.tickers],
              exists |-> w.exists, tickers |-> w.tickers]

WatchRow == [exists |-> watch.exists, tickers |-> watch.tickers]

add_tickers(tickers) ==
    /\ watch.pc = "ready"
    /\ WatchCall("add_tickers", tickers, AddTickers(WatchRow, tickers))
    /\ UNCHANGED <<memos, investments, stats, now, call, ret, sess, gate, scan, score, board, sched>>

remove_tickers(tickers) ==
    /\ watch.pc = "ready"
    /\ WatchCall("remove_tickers", tickers, RemoveTickers(WatchRow, tickers))
    /\ UNCHANGED <<memos, investments, stats, now, call, ret, sess, gate, scan, score, board, sched>>

set_tickers(tickers) ==
    /\ watch.pc = "ready"
    /\ WatchCall("set_tickers", tickers, SetTickers(WatchRow, tickers))
    /\ UNCHANGED <<memos, investments, stats, now, call, ret, sess, gate, scan, score, board, sched>>

clear_watchlist ==
    /\ watch.pc = "ready"
    /\ WatchCall("clear_watchlist", <<>>, ClearWatchlist(WatchRow))
    /\ UNCHANGED <<memos, investments, stats, now, call, ret, sess, gate, scan, score, board, sched>>

InitWatch ==
    /\ DbInit
    /\ call = NoCall
    /\ ret = "none"
    /\ sess = [s \in Sessions |-> IdleSession]
    /\ gate = GateIdle
    /\ scan = ScanIdle
    /\ score = ScoreIdle
    /\ board = BoardIdle
    /\ watch = [pc |-> "ready", op |-> "none", arg |-> <<>>, before |-> NoWatchlist,
                exists |-> FALSE, tickers |-> <<>>]
    /\ sched = SchedIdle

NextWatch ==
    \/ \E tickers \in RawLists : add_tickers(tickers)
    \/ \E tickers \in RawLists : remove_tickers(tickers)
    \/ \E tickers \in RawLists : set_tickers(tickers)
    \/ clear_watchlist

SpecWatch == InitWatch /\ [][NextWatch]_vars

----------------------------------------------------------------------------
(* The scheduler.  scheduler is the module global: 0 is None, n > 0 the nth  *)
(* AsyncIOScheduler made.  Time is counted in quarterly run dates passed.    *)

MaxInstances == 3      \* AsyncIOScheduler objects made in a run
MaxTime == 3           \* quarterly run dates passed in a run

JobId == "quarterly_watchlist_scan"

\* The module as imported: scheduler = None.
NoScheduler ==
    [pc |-> "ready", scheduler |-> 0, instances |-> <<>>, time |-> 0,
     op |-> "none", log |-> "none", ret |-> NULL]

\* AsyncIOScheduler(), add_job(..., id=JobId, replace_existing=True), start():
\* the trigger's next run date is the next one after the current time.
NewScheduler(time) ==
    [running |-> TRUE, jobs |-> {[id |-> JobId, next_run_time |-> time + 1]}]

\* A start that does not look at the global.
StartSchedulerUnguarded(s) ==
    [s EXCEPT !.instances = Append(@, NewScheduler(s.time)),
              !.scheduler = Len(s.instances) + 1,
              !.log = "started"]

StartScheduler(s) ==
    IF s.scheduler # 0
    THEN [s EXCEPT !.log = "already_running"]
    ELSE [s EXCEPT !.instances = Append(@, NewScheduler(s.time)),
                   !.scheduler = Len(s.instances) + 1,
                   !.log = "started"]

StopScheduler(s) ==
    IF s.scheduler # 0
    THEN [s EXCEPT !.instances[s.scheduler].running = FALSE,
                   !.scheduler = 0,
                   !.log = "stopped"]
    ELSE [s EXCEPT !.log = "none"]

GetNextRunTime(s) ==
    IF s.scheduler = 0 THEN NULL
    ELSE LET found == {j \in s.instances[s.scheduler].jobs : j.id = JobId}
         IN  IF found # {} /\ (CHOOSE j \in found : TRUE).next_run_time # NULL
             THEN (CHOOSE j \in found : TRUE).next_run_time
             ELSE NULL

SchedFrame ==
    UNCHANGED <<memos, investments, stats, now, call, ret, sess, gate, scan, score, board,
                watch>>

start_scheduler ==
    /\ sched.scheduler # 0 \/ Len(sched.instances) < MaxInstances
    /\ sched' = [StartScheduler(sched) EXCEPT !.op = "start_scheduler", !.ret = NULL]
    /\ SchedFrame

stop_scheduler ==
    /\ sched' = [StopScheduler(sched) EXCEPT !.op = "stop_scheduler", !.ret = NULL]
    /\ SchedFrame

get_next_run_time ==
    /\ sched' = [sched EXCEPT !.op = "get_next_run_time", !.log = "none",
                              !.ret = GetNextRunTime(sched)]
    /\ SchedFrame

\* A run date passes: a running scheduler fires its job and the trigger moves
\* the job to the next date.
run_date_passes ==
    /\ sched.time < MaxTime
    /\ sched' = [sched EXCEPT
                    !.time = @ + 1,
                    !.instances =
                        [i \in DOMAIN @ |->
                            IF @[i].running
                            THEN [@[i] EXCEPT !.jobs =
                                     {[j EXCEPT !.next_run_time = sched.time + 2] : j \in @}]
                            ELSE @[i]],
                    !.op = "none", !.log = "none", !.ret = NULL]
    /\ SchedFrame

InitSched ==
    /\ DbInit
    /\ call = NoCall
    /\ ret = "none"
    /\ sess = [s \in Sessions |-> IdleSession]
    /\ gate = GateIdle
    /\ scan = ScanIdle
    /\ score = ScoreIdle
    /\ board = BoardIdle
    /\ watch = WatchIdle
    /\ sched = NoScheduler

NextSched ==
    \/ start_scheduler
    \/ stop_scheduler
    \/ get_next_run_time
    \/ run_date_passes

SpecSched == InitSched /\ [][NextSched]_vars

----------------------------------------------------------------------------
(* Claims on the memo lifecycle, one caller at a time (Spec) *)

InvestmentsOfMemo(invs, memo_id) == {i \in DOMAIN invs : invs[i].memo_id = memo_id}

Counters(row) == <<row.total_memos, row.approved_count, row.win_count, row.total_return>>

\* C1: after any sequence of calls, a memo is approved iff exactly one
\* Investment row has its id as memo_id; pending and rejected memos have none.
C1_ApprovedIffOneInvestment ==
    \A id \in DOMAIN memos :
        Cardinality(InvestmentsOfMemo(investments, id)) =
            IF memos[id].status = "approved" THEN 1 ELSE 0

C1_Witness ==
    \E i, j \in DOMAIN memos :
        /\ memos[i].status = "approved"
        /\ memos[j].status = "rejected"
        /\ Cardinality(InvestmentsOfMemo(investments, i)) = 1

\* C4: once a memo is reviewed, its status and reviewed_at never change again
\* and every later approve_memo or reject_memo on it fails.
C4_ReviewedOnce ==
    [][\A id \in DOMAIN memos :
          memos[id].status # "pending" =>
              /\ memos'[id].status = memos[id].status
              /\ memos'[id].reviewed_at = memos[id].reviewed_at
              /\ (call'.op \in {"approve_memo", "reject_memo"} /\ call'.id = id)
                    => ret' = "none"]_vars

C4_Witness ==
    /\ call.op = "reject_memo"
    /\ ret = "none"
    /\ call.id \in DOMAIN memos
    /\ memos[call.id].status = "approved"
    /\ memos[call.id].reviewed_at < now - 1

\* C5: approve_memo or reject_memo on a memo that is not pending, or on an id
\* that does not exist, returns the failure value and changes no table.
C5_FailedReviewChangesNothing ==
    [][(call'.op \in {"approve_memo", "reject_memo"} /\ ~PendingMemo(memos, call'.id))
          => (ret' = "none" /\ UNCHANGED dbVars)]_vars

C5_Witness ==
    /\ call.op = "approve_memo"
    /\ ret = "none"
    /\ call.id \in DOMAIN memos
    /\ memos[call.id].status = "rejected"
    /\ investments # <<>>

\* C6: refresh_analyst_stats computes total_memos, approved_count, win_count
\* and total_return equal to the incrementally maintained counters it replaces.
C6_RefreshEqualsIncremental ==
    [][call'.op = "refresh_analyst_stats"
          => \A a \in Analysts : Counters(stats'[a]) = Counters(stats[a])]_vars

\* C7: refreshing an analyst twice in a row, with no write in between, yields
\* the same total_memos, approved_count, win_count and total_return both times.
C7_RefreshIdempotent ==
    \A a \in Analysts :
        LET once == RefreshedStats(stats, memos, investments, a)
            twice == RefreshedStats(once, memos, investments, a)
        IN  Counters(twice[a]) = Counters(once[a])

C7_Witness ==
    /\ call.op = "refresh_analyst_stats"
    /\ \E i \in DOMAIN investments :
          LET a == investments[i].analyst
          IN  /\ investments[i].status = "closed"
              /\ stats[a].total_return # 0
              /\ stats[a].total_return =
                    Round2(SumReturns(investments, ClosedInvestmentsByAnalyst(investments, a)))
              /\ stats[a].total_return #
                    SumReturns(investments, ClosedInvestmentsByAnalyst(investments, a))

----------------------------------------------------------------------------
(* Claims on investments, one caller at a time (Spec) *)

\* The step is a close_investment call that returned the closed investment.
ClosedNow == call'.op = "close_investment" /\ ret' = "ok"

\* C15: return_pct is (exit - entry) / entry * 100 for a bullish investment
\* and (entry - exit) / entry * 100 for a bearish one; the close is a win iff
\* return_pct > 0, and a close at the entry price is not a win.
C15_ReturnAndWin ==
    [][ClosedNow =>
        LET inv == investments[call'.id]
            a == inv.analyst
            e == inv.entry_price
            x == investments'[call'.id].exit_price
            expected == IF inv.signal = "bullish"
                        THEN RoundDiv((x - e) * 100 * Scale, e)
                        ELSE RoundDiv((e - x) * 100 * Scale, e)
            won == stats'[a].win_count - stats[a].win_count
        IN  /\ stats'[a].total_return - stats[a].total_return = expected
            /\ won = (IF expected > 0 THEN 1 ELSE 0)
            /\ (won = 1) <=> (IF inv.signal = "bullish" THEN x > e ELSE x < e)
            /\ (x = e) => won = 0
      ]_vars

\* A bearish investment closed at its entry price after a bullish one was
\* closed at a gain: the flat close is not a win.
C15_Witness ==
    /\ call.op = "close_investment" /\ ret = "ok"
    /\ investments[call.id].signal = "bearish"
    /\ investments[call.id].exit_price = investments[call.id].entry_price
    /\ stats[investments[call.id].analyst].win_count = 0
    /\ stats[investments[call.id].analyst].total_return = 0
    /\ \E i \in DOMAIN investments :
          /\ investments[i].signal = "bullish"
          /\ investments[i].exit_price > investments[i].entry_price
          /\ stats[investments[i].analyst].win_count = 1

\* C16: a successful close adds return_pct to total_return for a win and for
\* a loss alike, adds 1 to win_count for a win and 0 otherwise, and leaves
\* approved_count, total_memos and the other analysts' rows unchanged.
C16_CloseUpdatesStats ==
    [][ClosedNow =>
        LET inv == investments[call'.id]
            a == inv.analyst
            return_pct == ReturnPct(inv.signal, inv.entry_price,
                                    investments'[call'.id].exit_price)
        IN  /\ stats'[a].total_return = stats[a].total_return + return_pct
            /\ stats'[a].win_count =
                  stats[a].win_count + (IF return_pct > 0 THEN 1 ELSE 0)
            /\ stats'[a].approved_count = stats[a].approved_count
            /\ stats'[a].total_memos = stats[a].total_memos
            /\ \A b \in Analysts \ {a} : stats'[b] = stats[b]
      ]_vars

\* A bullish investment closed below its entry price: the loss is added.
C16_Witness ==
    /\ call.op = "close_investment" /\ ret = "ok"
    /\ investments[call.id].signal = "bullish"
    /\ investments[call.id].exit_price < investments[call.id].entry_price
    /\ stats[investments[call.id].analyst].total_return < 0
    /\ stats[investments[call.id].analyst].win_count = 0
    /\ stats[investments[call.id].analyst].approved_count >= 1

\* C17: close_investment on an investment that does not exist or is not
\* active returns failure and changes no table.
C17_FailedCloseChangesNothing ==
    [][(/\ call'.op = "close_investment"
        /\ \/ call'.id \notin DOMAIN investments
           \/ investments[call'.id].status # "active")
       => (ret' = "none" /\ UNCHANGED dbVars)]_vars

C17_Witness ==
    /\ call.op = "close_investment" /\ ret = "none"
    /\ call.id \in DOMAIN investments
    /\ investments[call.id].status = "closed"

\* C19: exit_price and exit_date are both null or both set, they are set
\* exactly when the status is closed, and a closed investment stays closed.
C19_ExitFieldsWithStatus ==
    /\ [](\A i \in DOMAIN investments :
            /\ investments[i].status \in {"active", "closed"}
            /\ (investments[i].exit_price = NULL) <=> (investments[i].exit_date = NULL)
            /\ (investments[i].status = "closed") <=> (investments[i].exit_price # NULL))
    /\ [][\A i \in DOMAIN investments :
            investments[i].status = "closed" =>
                /\ i \in DOMAIN investments'
                /\ investments'[i] = investments[i]]_vars

C19_Witness ==
    \E i \in DOMAIN investments :
        /\ investments[i].status = "closed"
        /\ investments[i].exit_price # NULL
        /\ investments[i].exit_date # NULL
        /\ call.op = "close_investment" /\ call.id = i /\ ret = "none"

\* C20: a successful approve_memo creates one active Investment whose
\* entry_price is the override when one is given and the memo's current_price
\* otherwise, and whose memo_id, ticker, analyst and signal are the memo's.
C20_ApproveCreatesInvestment ==
    [][(call'.op = "approve_memo" /\ ret' = "ok") =>
        LET memo == memos[call'.id]
            created == investments'[Len(investments')]
        IN  /\ Len(investments') = Len(investments) + 1
            /\ SubSeq(investments', 1, Len(investments)) = investments
            /\ created.status = "active"
            /\ created.exit_price = NULL /\ created.exit_date = NULL
            /\ created.entry_price =
                  (IF call'.price # NULL THEN call'.price ELSE memo.current_price)
            /\ created.memo_id = call'.id
            /\ created.ticker = memo.ticker
            /\ created.analyst = memo.analyst
            /\ created.signal = memo.signal
      ]_vars

C20_Witness ==
    /\ call.op = "approve_memo" /\ ret = "ok" /\ call.price # NULL
    /\ investments[Len(investments)].memo_id = call.id
    /\ investments[Len(investments)].entry_price = call.price
    /\ investments[Len(investments)].entry_price # memos[call.id].current_price

----------------------------------------------------------------------------
(* Claims on rejection and on the counters, one caller at a time (Spec) *)

\* C21: a successful reject_memo sets the memo's status to rejected and its
\* reviewed_at, creates no Investment and leaves every AnalystStats row as it was.
C21_RejectFrame ==
    [][(call'.op = "reject_memo" /\ ret' = "ok") =>
        /\ memos[call'.id].status = "pending"
        /\ memos'[call'.id].status = "rejected"
        /\ memos'[call'.id].reviewed_at # NULL
        /\ memos'[call'.id].reviewed_at = now
        /\ \A i \in DOMAIN memos : i # call'.id => memos'[i] = memos[i]
        /\ DOMAIN memos' = DOMAIN memos
        /\ investments' = investments
        /\ stats' = stats
      ]_vars

C21_Witness ==
    /\ call.op = "reject_memo" /\ ret = "ok"
    /\ memos[call.id].status = "rejected"
    /\ memos[call.id].reviewed_at # NULL
    /\ InvestmentsOfMemo(investments, call.id) = {}
    /\ stats[memos[call.id].analyst].total_memos = 1
    /\ stats[memos[call.id].analyst].approved_count = 0

\* C22: each analyst's total_memos equals the number of memos that exist for
\* that analyst, whatever approve, reject and close calls came in between.
C22_TotalMemosCountsMemos ==
    \A a \in Analysts :
        stats[a].total_memos = Cardinality({i \in DOMAIN memos : memos[i].analyst = a})

C22_Witness ==
    /\ call.op = "create_memo" /\ ret = "ok"
    /\ Len(memos) = 2
    /\ memos[1].analyst = memos[2].analyst
    /\ memos[1].status = "approved"
    /\ stats[memos[1].analyst].total_memos = 2
    /\ \E i \in DOMAIN investments : investments[i].status = "closed"

\* The closed investments of analyst a with both exit fields of the row read.
GroundTruthClosed(a) ==
    {i \in DOMAIN investments :
        investments[i].analyst = a /\ investments[i].status = "closed"}

\* C25: refresh_analyst_stats overwrites the stored row from ground truth:
\* total_memos the analyst's memos, approved_count those approved, win_count
\* the closed investments with a recomputed return > 0, total_return the sum
\* of the recomputed returns rounded to 2 decimals.
C25_RefreshFromGroundTruth ==
    [][call'.op = "refresh_analyst_stats" =>
        \E a \in Analysts :
            /\ \A b \in Analysts \ {a} : stats'[b] = stats[b]
            /\ stats'[a].exists
            /\ stats'[a].total_memos =
                  Cardinality({i \in DOMAIN memos : memos[i].analyst = a})
            /\ stats'[a].approved_count =
                  Cardinality({i \in DOMAIN memos :
                      memos[i].analyst = a /\ memos[i].status = "approved"})
            /\ stats'[a].win_count =
                  Cardinality({i \in GroundTruthClosed(a) :
                      IF investments[i].signal = "bullish"
                      THEN investments[i].exit_price > investments[i].entry_price
                      ELSE investments[i].exit_price < investments[i].entry_price})
            /\ stats'[a].total_return =
                  Round2(SumReturns(investments, GroundTruthClosed(a)))
      ]_vars

\* The stored total_return was 33.3333 and the refresh made it 33.33.
C25_Witness ==
    /\ call.op = "refresh_analyst_stats"
    /\ \E a \in Analysts :
          /\ stats[a].total_return = 33 * Scale + 33 * (Scale \div 100)
          /\ stats[a].win_count = 1
          /\ stats[a].approved_count >= 1

----------------------------------------------------------------------------
(* Claims on concurrent requests (SpecConc) *)

\* The requests that approved memo id and returned the memo and its investment.
SucceededApproves(id) ==
    {s \in Sessions : /\ sess[s].pc = "idle"
                      /\ sess[s].op = "approve_memo"
                      /\ sess[s].id = id
                      /\ sess[s].ret = "ok"}

\* C2: of two concurrent approve_memo calls on the same pending memo at most
\* one succeeds: one Investment is created for the memo and the analyst's
\* approved_count rises by one.
C2_AtMostOneApproveSucceeds ==
    /\ \A id \in DOMAIN memos :
          /\ Cardinality(SucceededApproves(id)) <= 1
          /\ Cardinality(InvestmentsOfMemo(investments, id)) <= 1
    /\ \A a \in Analysts : stats[a].approved_count <= CountApprovedByAnalyst(memos, a)

\* C3: the three effects of approve_memo are all-or-nothing: in every state a
\* reader can see, and in every state a crash can leave, each analyst has as
\* many approved memos as investments as approved_count.
C3_ApproveAllOrNothing ==
    \A a \in Analysts :
        /\ CountApprovedByAnalyst(memos, a) =
              Cardinality({i \in DOMAIN investments : investments[i].analyst = a})
        /\ CountApprovedByAnalyst(memos, a) = stats[a].approved_count

\* C18: close_investment is one atomic unit: in every observable state each
\* closed investment of an analyst has contributed its return to the
\* analyst's win_count and total_return exactly once.
C18_CloseCountedOnce ==
    \A a \in Analysts :
        LET closed_investments == ClosedInvestmentsByAnalyst(investments, a)
        IN  /\ stats[a].win_count = CountWins(investments, closed_investments)
            /\ stats[a].total_return = SumReturns(investments, closed_investments)

\* C23: AnalystStats mutations are serialized per analyst: once the concurrent
\* requests have returned, the counters reflect every update, so approved_count
\* is the number of approvals that went through (one investment each).
C23_NoLostUpdate ==
    (\A s \in Sessions : sess[s].pc = "idle") =>
        \A a \in Analysts :
            /\ stats[a].approved_count =
                  Cardinality({i \in DOMAIN investments : investments[i].analyst = a})
            /\ stats[a].total_memos = CountMemosByAnalyst(memos, a)

\* C24: get_or_create_stats is idempotent under concurrent callers: no caller
\* fails when another caller inserted the analyst's row first.
C24_NoCallerFails ==
    \A s \in Sessions : sess[s].ret # "error"

----------------------------------------------------------------------------
(* Claims on the memo gate (SpecGate) *)

C9_FactoryMemoAboveGate ==
    (gate.pc = "factory" /\ gate.memo.exists) =>
        /\ gate.memo.conviction >= 70
        /\ gate.memo.signal \in {"bullish", "bearish"}

----------------------------------------------------------------------------
(* Claims on the scanner (SpecScan) *)

\* C10: tickers_scanned is incremented once for every ticker whether or not
\* processing it raised, so a completed scan has tickers_scanned equal to the
\* number of tickers in the universe.
C10_CompletedScanCountsEveryTicker ==
    (scan.pc = "done" /\ scan.batch_size > 0 /\ scan.result.status = "completed") =>
        scan.result.tickers_scanned = Len(scan.universe)

\* The ticker the last scan_ticker step processed.
LastTicker == scan.universe[scan.pos - 1]

ErrorTickers == {scan.result.errors[i].ticker : i \in DOMAIN scan.result.errors}

\* C11: when processing one ticker raises inside scan_batch, exactly one error
\* naming that ticker is appended, the scan moves on to the next ticker, and
\* a scan that got past its batching ends completed with every ticker processed.
C11_TickerErrorIsolated ==
    [][/\ (scan.pc = "batch" /\ scan'.outcome.raised) =>
            /\ scan'.result.errors =
                  Append(scan.result.errors,
                         [kind |-> "ticker", ticker |-> scan.universe[scan.pos]])
            /\ scan'.pos = scan.pos + 1
            /\ scan'.result.status = "running"
            /\ scan'.pc = IF scan.pos = Len(scan.universe) THEN "completing"
                          ELSE IF scan.pos % scan.batch_size = 0 THEN "sleep" ELSE "batch"
       /\ (scan'.pc = "done" /\ scan.batch_size > 0) =>
            /\ scan'.result.status = "completed"
            /\ scan'.pos = Len(scan.universe) + 1
      ]_vars

C11_Witness ==
    /\ scan.pc = "done"
    /\ scan.result.status = "completed"
    /\ Len(scan.universe) = 2
    /\ scan.batch_size = 1
    /\ scan.result.errors = <<[kind |-> "ticker", ticker |-> scan.universe[1]]>>
    /\ scan.result.tickers_scanned = 1

\* C12: every failure of a single analyst on a ticker is recorded as an entry
\* of ScanResult.errors that references the ticker.
C12_AnalystFailureInErrors ==
    (scan.pc \in {"batch", "sleep", "completing", "done"} /\ scan.pos > 1
        /\ \E a \in ScanAnalysts : scan.outcome.results[a].raised)
    => LastTicker \in ErrorTickers

\* C13: an analyst that raises or falls back to neutral / confidence 0 yields
\* no memo for its (ticker, analyst) pair, and every other analyst still
\* contributes the memo its own signal earns.
C13_AnalystIsolation ==
    (scan.pos > 1 /\ ~scan.outcome.raised) =>
        \A a \in ScanAnalysts :
            LET o == scan.outcome.results[a]
                mine == {i \in DOMAIN scan.memos : scan.memos[i].analyst = a}
            IN  /\ (o.raised \/ o.signal = "neutral") => mine = {}
                /\ (~o.raised /\ o.signal # "neutral" /\ o.confidence >= 70) =>
                      /\ Cardinality(mine) = 1
                      /\ \A i \in mine :
                            /\ scan.memos[i].ticker = LastTicker
                            /\ scan.memos[i].signal = o.signal
                            /\ scan.memos[i].conviction = o.confidence

C13_Witness ==
    /\ scan.pos > 1
    /\ ~scan.outcome.raised
    /\ scan.outcome.results["michael_burry"].raised
    /\ Len(scan.memos) = 1
    /\ scan.memos[1].analyst = "bill_ackman"

\* C14: a ScanResult starts running; run_full_scan always ends with it
\* completed or failed and end_time set; the status is never cancelled and
\* never leaves completed or failed.
C14_ScanTerminates ==
    /\ scan.result.status = "running"
    /\ [](scan.result.status \in {"running", "completed", "failed"})
    /\ <>(scan.pc = "done")
    /\ [](scan.pc = "done" => (scan.result.status \in {"completed", "failed"}
                                 /\ scan.result.ended))
    /\ [][scan.result.status \in {"completed", "failed"} =>
            scan'.result.status = scan.result.status]_vars

C14_Witness ==
    /\ scan.pc = "done"
    /\ scan.result.status = "failed"
    /\ scan.result.ended
    /\ Len(scan.universe) = 2

----------------------------------------------------------------------------
(* Claims on the analyst scorers (SpecScore) *)

\* The largest score each sub-analysis can add up, in the order the agent
\* runs them: the sum of the "score +=" branches that can be taken together.
AttainableMax(analyst) ==
    IF analyst = "bill_ackman" THEN <<7, 4, 2, 3>> ELSE <<6, 3, 2, 1>>

\* C26: every scorer classifies by one rule: bullish iff
\* total_score >= 0.70 * max_score, otherwise bearish iff
\* total_score <= 0.30 * max_score, otherwise neutral.
C26_ClassificationRule ==
    score.pc = "done" =>
        LET total_score == score.result.total_score
            max_score == score.result.max_score
            high == 100 * total_score >= 70 * max_score
            low == 100 * total_score <= 30 * max_score
        IN  /\ score.result.signal = "bullish" <=> high
            /\ score.result.signal = "bearish" <=> (~high /\ low)
            /\ score.result.signal = "neutral" <=> (~high /\ ~low)

\* A score exactly on the bullish threshold: 14 of 20.
C26_Witness ==
    /\ score.pc = "done"
    /\ score.analyst = "bill_ackman"
    /\ 10 * score.result.total_score = 7 * score.result.max_score
    /\ score.result.signal = "bullish"

\* C27: total_score is the sum of the sub-analysis scores, max_score is the
\* sum of the sub-analyses' attainable maxima, and total_score = max_score
\* exactly when every sub-analysis attains its maximum.
C27_MaxScoreIsSumOfMaxima ==
    score.pc = "done" =>
        LET subs == score.result.subs
            maxima == AttainableMax(score.analyst)
        IN  /\ score.result.total_score = SumScores(subs)
            /\ score.result.max_score = maxima[1] + maxima[2] + maxima[3] + maxima[4]
            /\ (score.result.total_score = score.result.max_score)
                   <=> (\A i \in DOMAIN subs : subs[i].score = maxima[i])

\* C28: no sub-analysis raises on missing or zero-valued inputs, and with
\* every input missing the score is 0.
C28_SubAnalysesNeverRaise ==
    score.pc # "input" =>
        /\ \A i \in DOMAIN score.result.subs : ~score.result.subs[i].raised
        /\ (score.metrics = <<>> /\ score.items = <<>> /\ score.market_cap = NULL
                /\ score.insider_trades = <<>> /\ score.news = <<>>)
               => score.result.total_score = 0

----------------------------------------------------------------------------
(* Claims on the leaderboard (SpecBoard) *)

\* C29: the win-rate leaderboard has at most limit analysts, all with
\* approved_count > 0 and each a row of the table listed once, in descending
\* order of win_count / approved_count, and no analyst with approved_count > 0
\* that is left out has a higher win rate than one that is returned.
C29_WinRateLeaderboard ==
    (board.pc = "done" /\ board.sort_by = "win_rate") =>
        LET result == board.result
            rows == board.rows
            returned == {result[i].analyst : i \in DOMAIN result}
            left_out == {i \in DOMAIN rows : /\ rows[i].approved_count > 0
                                             /\ rows[i].analyst \notin returned}
        IN  /\ Len(result) <= board.limit
            /\ \A i \in DOMAIN result :
                  /\ result[i].approved_count > 0
                  /\ \E j \in DOMAIN rows : rows[j] = result[i]
            /\ \A i, j \in DOMAIN result :
                  i < j => /\ result[i].analyst # result[j].analyst
                           /\ result[i].win_count * result[j].approved_count
                                  >= result[j].win_count * result[i].approved_count
            /\ \A i \in left_out : \A j \in DOMAIN result :
                  rows[i].win_count * result[j].approved_count
                      <= result[j].win_count * rows[i].approved_count

\* Three analysts with approvals stored in ascending order of win rate, and a
\* limit of two: the list is re-ordered and the lowest one is cut off.
C29_Witness ==
    /\ board.pc = "done"
    /\ board.sort_by = "win_rate"
    /\ board.limit = 2
    /\ Len(board.result) = 2
    /\ \A i \in DOMAIN board.rows : board.rows[i].approved_count > 0
    /\ \A i, j \in DOMAIN board.rows :
          i < j => board.rows[i].win_count * board.rows[j].approved_count
                       < board.rows[j].win_count * board.rows[i].approved_count
    /\ board.result = <<board.rows[3], board.rows[2]>>

----------------------------------------------------------------------------
(* Claims on the watchlist (SpecWatch) *)

\* C30: after any sequence of add_tickers, set_tickers, remove_tickers and
\* clear_watchlist calls the stored tickers are whitespace-trimmed, uppercase,
\* non-empty, free of duplicates and in ascending order; adding
\* [' aapl ', 'MSFT', 'aapl'] to an empty watchlist stores ['AAPL', 'MSFT'].
C30_TickersNormalized ==
    watch.pc = "ready" =>
        /\ \A i \in DOMAIN watch.tickers :
              LET t == watch.tickers[i]
              IN  /\ t # <<>>
                  /\ t[1] # " " /\ t[Len(t)] # " "
                  /\ \A k \in DOMAIN t : t[k] \notin {"a", "f", "l", "m", "p", "s", "t"}
        /\ \A i, j \in DOMAIN watch.tickers :
              i < j => /\ watch.tickers[i] # watch.tickers[j]
                       /\ StrLess(watch.tickers[i], watch.tickers[j])
        /\ (/\ watch.op = "add_tickers"
            /\ watch.before.tickers = <<>>
            /\ watch.arg = ExampleTickers)
               => watch.tickers = <<<<"A", "A", "P", "L">>, <<"M", "S", "F", "T">>>>

\* The example of the claim has run.
C30_Witness ==
    /\ watch.pc = "ready"
    /\ watch.op = "add_tickers"
    /\ watch.before.tickers = <<>>
    /\ watch.arg = ExampleTickers
    /\ watch.tickers = <<<<"A", "A", "P", "L">>, <<"M", "S", "F", "T">>>>

----------------------------------------------------------------------------
(* Further claims on the lifecycle, one caller at a time (Spec) *)

\* C31: a memo is never removed; its ticker, analyst, signal and current_price
\* never change; a memo changes only in the approve_memo or reject_memo call
\* made on it while it is pending; close_investment and refresh_analyst_stats
\* leave every memo as it was.
C31_MemoFrame ==
    [][/\ DOMAIN memos \subseteq DOMAIN memos'
       /\ \A i \in DOMAIN memos :
             /\ memos'[i].ticker = memos[i].ticker
             /\ memos'[i].analyst = memos[i].analyst
             /\ memos'[i].signal = memos[i].signal
             /\ memos'[i].current_price = memos[i].current_price
             /\ memos'[i] # memos[i] =>
                   /\ call'.op \in {"approve_memo", "reject_memo"}
                   /\ call'.id = i
                   /\ memos[i].status = "pending"
                   /\ memos'[i].status =
                         (IF call'.op = "approve_memo" THEN "approved" ELSE "rejected")
       /\ call'.op \in {"close_investment", "refresh_analyst_stats"} => memos' = memos
      ]_vars

\* One analyst has two pending memos and one of them has just been approved.
C31_Witness ==
    /\ call.op = "approve_memo" /\ ret = "ok"
    /\ Len(memos) = 2
    /\ memos[1].analyst = memos[2].analyst
    /\ \E i \in DOMAIN memos : i # call.id /\ memos[i].status = "pending"

\* C32: the approve, reject and close endpoints answer 404 for an id that does
\* not exist, 400 for a memo that is not pending or an investment that is not
\* active, and 200 only when the transition was performed.
C32_NotFoundOrInvalidState ==
    [][/\ call'.op \in {"approve_memo", "reject_memo"} =>
             LET status == RouteStatus(ret' = "ok", call'.id \in DOMAIN memos')
                 target == IF call'.op = "approve_memo" THEN "approved" ELSE "rejected"
             IN  /\ call'.id \notin DOMAIN memos => status = 404
                 /\ (call'.id \in DOMAIN memos /\ memos[call'.id].status # "pending")
                        => status = 400
                 /\ status = 200 => /\ call'.id \in DOMAIN memos
                                    /\ memos[call'.id].status = "pending"
                                    /\ memos'[call'.id].status = target
       /\ call'.op = "close_investment" =>
             LET status == RouteStatus(ret' = "ok", call'.id \in DOMAIN investments')
             IN  /\ call'.id \notin DOMAIN investments => status = 404
                 /\ (call'.id \in DOMAIN investments
                        /\ investments[call'.id].status # "active") => status = 400
                 /\ status = 200 => /\ call'.id \in DOMAIN investments
                                    /\ investments[call'.id].status = "active"
                                    /\ investments'[call'.id].status = "closed"
      ]_vars

\* A close of an investment that is already closed: the service returned None
\* and the route answers 400; the id after it does not exist and is answered 404.
C32_Witness ==
    /\ call.op = "close_investment" /\ ret = "none"
    /\ call.id \in DOMAIN investments
    /\ investments[call.id].status = "closed"
    /\ RouteStatus(FALSE, call.id \in DOMAIN investments) = 400
    /\ (call.id + 1) \notin DOMAIN investments
    /\ RouteStatus(FALSE, (call.id + 1) \in DOMAIN investments) = 404

\* C38: every analyst's counters satisfy win_count <= closed investments <=
\* approved_count <= total_memos, and win_rate and approval_rate lie in
\* [0, 100] and are 0 when their denominator is 0.
C38_CountersOrdered ==
    \A a \in Analysts :
        LET closed == Cardinality(ClosedInvestmentsByAnalyst(investments, a))
        IN  /\ 0 <= stats[a].win_count
            /\ stats[a].win_count <= closed
            /\ closed <= stats[a].approved_count
            /\ stats[a].approved_count <= stats[a].total_memos
            /\ 0 <= WinRate(stats[a]) /\ WinRate(stats[a]) <= 100 * Scale
            /\ 0 <= ApprovalRate(stats[a]) /\ ApprovalRate(stats[a]) <= 100 * Scale
            /\ stats[a].approved_count = 0 => WinRate(stats[a]) = 0
            /\ stats[a].total_memos = 0 => ApprovalRate(stats[a]) = 0

\* An analyst with two approved memos, one of them closed as a win.
C38_Witness ==
    \E a \in Analysts :
        /\ stats[a].win_count = 1
        /\ Cardinality(ClosedInvestmentsByAnalyst(investments, a)) = 1
        /\ stats[a].approved_count = 2
        /\ stats[a].total_memos = 2
        /\ WinRate(stats[a]) = 50 * Scale

----------------------------------------------------------------------------
(* Further claims on the scanner (SpecScan) *)

\* The analysts whose result on a ticker clears the memo gate.
ClearedGate(outcome) ==
    {a \in ScanAnalysts : /\ ~outcome.results[a].raised
                          /\ outcome.results[a].signal # "neutral"
                          /\ outcome.results[a].confidence >= 70}

\* C34: each (ticker, analyst) result that clears the memo gate appends exactly
\* one memo to high_conviction_memos and adds one to memos_generated, whatever
\* the configured conviction_threshold.
C34_ClearedGateCounted ==
    [][(scan.pc = "batch" /\ ~scan'.outcome.raised) =>
          /\ scan'.result.memos_generated =
                scan.result.memos_generated + Cardinality(ClearedGate(scan'.outcome))
          /\ Len(scan'.result.high_conviction_memos) =
                Len(scan.result.high_conviction_memos) + Cardinality(ClearedGate(scan'.outcome))
      ]_vars

\* The tickers in universe order, with a delay after every full batch that is
\* followed by another batch.
RECURSIVE ExpectedLog(_, _)
ExpectedLog(universe, batch_size) ==
    IF Len(universe) <= batch_size THEN universe
    ELSE SubSeq(universe, 1, batch_size) \o <<"sleep">>
         \o ExpectedLog(SubSeq(universe, batch_size + 1, Len(universe)), batch_size)

C37_MemosCounted ==
    /\ scan.result.memos_generated = Len(scan.result.high_conviction_memos)
    /\ \A i \in DOMAIN scan.result.high_conviction_memos :
          scan.result.high_conviction_memos[i].conviction >= scan.result.conviction_threshold

\* A memo at conviction 70 was dropped by a threshold of 80 and one at 85 kept.
C37_Witness ==
    /\ scan.pos > 1
    /\ scan.result.conviction_threshold = 80
    /\ Len(scan.memos) = 2
    /\ scan.result.memos_generated = 1
    /\ scan.result.high_conviction_memos[1].conviction = 85

\* C39: a completed scan has accounted for every ticker of the universe once:
\* tickers_scanned plus the per-ticker error entries is total_tickers, for
\* every batch_size.
C39_EveryTickerAccounted ==
    (scan.pc = "done" /\ scan.result.status = "completed") =>
        scan.result.tickers_scanned
            + Cardinality({i \in DOMAIN scan.result.errors :
                              scan.result.errors[i].kind = "ticker"})
          = scan.result.total_tickers

----------------------------------------------------------------------------
(* Claims on the order of a scan (SpecOrder) *)

\* C36: for any permutation of the universe, each ticker's outcomes fixed,
\* tickers_scanned, memos_generated, the number of errors and the set of
\* generated memos are the same.
C36_OrderIndependent ==
    scan.pc = "done" =>
        /\ scan.first.status = scan.second.status
        /\ scan.first.tickers_scanned = scan.second.tickers_scanned
        /\ scan.first.memos_generated = scan.second.memos_generated
        /\ Len(scan.first.errors) = Len(scan.second.errors)
        /\ {scan.first.high_conviction_memos[i] :
                i \in DOMAIN scan.first.high_conviction_memos}
             = {scan.second.high_conviction_memos[i] :
                    i \in DOMAIN scan.second.high_conviction_memos}

\* Two tickers scanned in both orders, each producing a memo: the two lists
\* of memos come in different orders.
C36_Witness ==
    /\ scan.pc = "done"
    /\ Len(scan.universe) = 2
    /\ scan.order[1] = 2
    /\ scan.first.memos_generated = 2
    /\ scan.first.high_conviction_memos # scan.second.high_conviction_memos

----------------------------------------------------------------------------
(* Claims on the manual scan (SpecManual) *)

\* C33: the summary carries the scan's status and tickers_scanned, the first
\* at most 5 errors in their order, and as memos_generated the number of memos
\* persisted to the inbox; a memo that fails to persist does not stop the
\* ones after it.
C33_ManualScanSummary ==
    scan.pc = "done" =>
          /\ scan.summary.status = scan.result.status
          /\ scan.summary.tickers_scanned = scan.result.tickers_scanned
          /\ Len(scan.summary.errors) <= 5
          /\ Len(scan.summary.errors) <= Len(scan.result.errors)
          /\ Len(scan.result.errors) <= 5 => scan.summary.errors = scan.result.errors
          /\ \A i \in DOMAIN scan.summary.errors :
                scan.summary.errors[i] = scan.result.errors[i]
          /\ Len(scan.result.errors) >= 5 => Len(scan.summary.errors) = 5
          /\ scan.summary.memos_generated = Len(memos)
          /\ scan.submitted_count + Cardinality(scan.failed)
                = Len(scan.result.high_conviction_memos)

----------------------------------------------------------------------------
(* Claims on the scheduler (SpecSched) *)

RunningInstances(s) == {i \in DOMAIN s.instances : s.instances[i].running}

\* C40: after any sequence of start_scheduler and stop_scheduler calls at most
\* one scheduler runs and it holds one quarterly job; start_scheduler on a
\* running scheduler and stop_scheduler on a stopped one change nothing, a
\* start after a stop makes a fresh scheduler, and get_next_run_time returns
\* None whenever the scheduler is stopped.
C40_OneScheduler ==
    [][/\ Cardinality(RunningInstances(sched')) <= 1
       /\ RunningInstances(sched') =
             IF sched'.scheduler = 0 THEN {} ELSE {sched'.scheduler}
       /\ \A i \in RunningInstances(sched') :
             /\ Cardinality(sched'.instances[i].jobs) = 1
             /\ \A j \in sched'.instances[i].jobs : j.id = JobId
       /\ (sched'.op = "start_scheduler" /\ sched.scheduler # 0)
             => /\ sched'.scheduler = sched.scheduler
                /\ sched'.instances = sched.instances
       /\ (sched'.op = "stop_scheduler" /\ sched.scheduler = 0)
             => /\ sched'.scheduler = 0
                /\ sched'.instances = sched.instances
       /\ (sched'.op = "start_scheduler" /\ sched.scheduler = 0)
             => /\ sched'.scheduler \notin DOMAIN sched.instances
                /\ sched'.scheduler \in RunningInstances(sched')
                /\ \A i \in DOMAIN sched.instances :
                      sched'.instances[i] = sched.instances[i]
       /\ (sched'.op = "stop_scheduler" /\ sched.scheduler # 0)
             => RunningInstances(sched') = {}
       /\ (sched'.op = "get_next_run_time" /\ sched.scheduler = 0)
             => sched'.ret = NULL
       /\ (sched'.op = "get_next_run_time" /\ sched.scheduler # 0)
             => sched'.ret = sched.time + 1
      ]_vars

\* Started, stopped, started again, and a further start found it running: the
\* second scheduler is the only one running; a run date has passed.
C40_Witness ==
    /\ sched.pc = "ready"
    /\ sched.op = "start_scheduler"
    /\ sched.log = "already_running"
    /\ sched.scheduler = 2
    /\ ~sched.instances[1].running
    /\ sched.time > 0

====
